---- MODULE Spec2Model ----
(***************************************************************************)
(* State-machine model of the dialog-integrations pipeline:                *)
(*   - DialogIntegration.integrate_regulations / _integrate_regulations    *)
(*     run through the `integrate` command (cli.py),                       *)
(*   - the `publish` command (cli.py) and                                  *)
(*     DialogIntegration.publish_regulations (integrations/shared.py).     *)
(* The remote registry (identifier list, add and publish end points) is    *)
(* the environment: each remote call draws its outcome from a small set.   *)
(***************************************************************************)
EXTENDS Integers, Sequences, FiniteSets, TLC

(***************************************************************************)
(* Bounds                                                                  *)
(***************************************************************************)
\* largest number of rows of a raw feed
MaxRows == 2
\* largest number of identifiers the registry knows before the first run
MaxKnown == 2
\* largest number of characters of a value handed to cast_boolean_column
MaxLen == 3

(***************************************************************************)
(* Values                                                                  *)
(***************************************************************************)
\* a null cell and a non-null cell of a nullable column
None == <<>>
Some(x) == <<x>>

\* MeasureTypeEnum values used by the adapters
SPEEDLIMITATION == "speedLimitation"
PARKINGPROHIBITED == "parkingProhibited"
NOENTRY == "noEntry"
MeasureTypeEnum == {SPEEDLIMITATION, PARKINGPROHIBITED, NOENTRY}

\* the other enumerations of the client the DTOs are built with
RAWGEOJSON == "rawGeoJSON"
RoadTypeEnum == {"lane", "departmentalRoad", "nationalRoad", RAWGEOJSON}
PUBLISHED == "published"
DRAFT == "draft"
PostApiRegulationsAddBodyStatus == {DRAFT, PUBLISHED}
PERMANENTREGULATION == "permanentRegulation"
PostApiRegulationsAddBodyCategory == {"temporaryRegulation", PERMANENTREGULATION}
SUBJECT_OTHER == "other"
PostApiRegulationsAddBodySubject ==
    {"roadMaintenance", "incident", "event", "winterMaintenance", SUBJECT_OTHER}

\* the run-scoped suffix of integrate_regulations
RunSuffix == "-0"

\* field names of the RegulationMeasure TypedDict
RegulationMeasure ==
    { "period_start_date", "period_end_date", "period_start_time",
      "period_end_time", "period_recurrence_type", "period_is_permanent",
      "location_road_type", "location_label", "location_geometry",
      "regulation_identifier", "regulation_status", "regulation_category",
      "regulation_subject", "regulation_title",
      "regulation_other_category_text",
      "measure_type_", "measure_max_speed",
      "vehicle_all_vehicles", "vehicle_heavyweight_max_weight",
      "vehicle_max_height", "vehicle_max_width", "vehicle_exempted_types",
      "vehicle_restricted_types", "vehicle_other_exempted_type_text" }

\* the two adapters of the repository
Adapters == {"co_brest", "dp_sarthes"}

\* columns declared by BrestRawDataSchema and the non-nullable ones
BrestRawDataSchema ==
    { "NOARR", "DESCRIPTIF", "LIBRU", "LIBCO", "geometry", "SENS", "VELO",
      "CYCLO", "VITEMAX", "POIDS", "HAUTEUR", "LARGEUR", "DT_MAT" }
BrestNonNullable == {"VELO", "CYCLO"}

\* columns declared by SarthesRawDataSchema and the non-nullable ones
SarthesRawDataSchema ==
    { "infobulle", "VITESSE", "annee", "date_modif", "geo_shape", "loc_txt",
      "longueur" }
SarthesNonNullable == {"date_modif", "geo_shape"}

raw_data_schema(a) ==
    IF a = "co_brest" THEN BrestRawDataSchema ELSE SarthesRawDataSchema
NonNullable(a) ==
    IF a = "co_brest" THEN BrestNonNullable ELSE SarthesNonNullable

\* DESCRIPTION_CONFIG of the Brest adapter: DESCRIPTIF -> measure type
\* (the keys are written without their accents)
DESCRIPTION_CONFIG ==
    [ d \in { "Limitation Vitesse", "Stationnement interdit",
              "Arret interdit", "Stationnement genant",
              "Stationnement interdit aux poids-lourds",
              "Limitation Poids", "Limitation Hauteur",
              "Interdit aux transports de marchandises",
              "Interdit dans les 2 sens",
              "Interdit a  tous vehicules a moteur",
              "Interdit aux vehicules a moteur sauf cyclos",
              "Limitation Largeur", "Sens interdit / Sens unique" } |->
        IF d = "Limitation Vitesse" THEN SPEEDLIMITATION
        ELSE IF d \in { "Stationnement interdit", "Arret interdit",
                        "Stationnement genant",
                        "Stationnement interdit aux poids-lourds" }
             THEN PARKINGPROHIBITED
             ELSE NOENTRY ]

(***************************************************************************)
(* Sequence helpers                                                        *)
(***************************************************************************)
Range(s) == { s[i] : i \in 1..Len(s) }

RECURSIVE SeqsUpTo(_, _)
\* all sequences over S of length at most n
SeqsUpTo(S, n) ==
    IF n = 0 THEN { <<>> }
    ELSE LET shorter == SeqsUpTo(S, n - 1)
         IN  shorter \cup { Append(s, x) : s \in shorter, x \in S }

NoDup(s) == \A i, j \in 1..Len(s) : i # j => s[i] # s[j]

RECURSIVE FilterRows(_, _)
\* the rows of s that are in the set keep, order preserved
FilterRows(s, keep) ==
    IF s = <<>> THEN <<>>
    ELSE IF Head(s) \in keep THEN <<Head(s)>> \o FilterRows(Tail(s), keep)
         ELSE FilterRows(Tail(s), keep)

RECURSIVE MapRows(_, _)
\* the sequence f[s[1]], f[s[2]], ...
MapRows(s, f) ==
    IF s = <<>> THEN <<>> ELSE <<f[Head(s)]>> \o MapRows(Tail(s), f)

\* df.with_columns: the row r with the columns of new added or replaced
with_columns(r, new) ==
    [ f \in (DOMAIN r) \cup (DOMAIN new) |->
        IF f \in DOMAIN new THEN new[f] ELSE r[f] ]

\* the three truth values of a polars boolean expression
K3True == "true"
K3False == "false"
K3Null == "null"

\* Expr.eq(v) on a nullable cell: null when the cell is null
K3Eq(cell, v) ==
    IF cell = None THEN K3Null ELSE IF cell[1] = v THEN K3True ELSE K3False

\* the & and ~ of polars boolean expressions (Kleene logic)
K3And(x, y) ==
    IF x = K3False \/ y = K3False THEN K3False
    ELSE IF x = K3True /\ y = K3True THEN K3True ELSE K3Null
K3Not(x) ==
    IF x = K3True THEN K3False ELSE IF x = K3False THEN K3True ELSE K3Null

(***************************************************************************)
(* cast_boolean_column of the Brest adapter                                *)
(***************************************************************************)
\* the characters of the values handed to cast_boolean_column; a string is
\* the sequence of its characters
Letters == {"o", "u", "i", "n", "O", "U", "I", "N", "x"}

\* str.to_uppercase, character by character
UpperChar ==
    [ c \in Letters |->
        IF c = "o" THEN "O" ELSE IF c = "u" THEN "U" ELSE IF c = "i" THEN "I"
        ELSE IF c = "n" THEN "N" ELSE IF c = "x" THEN "X" ELSE c ]
to_uppercase(cell) ==
    IF cell = None THEN None
    ELSE Some([ i \in 1..Len(cell[1]) |-> UpperChar[cell[1][i]] ])

OUI == <<"O", "U", "I">>
NON == <<"N", "O", "N">>

\* a cast that compares the value as it is written
cast_boolean_column_exact_case(cell) ==
    LET branch == IF K3Eq(cell, OUI) = K3True THEN Some(TRUE)
                  ELSE IF K3Eq(cell, NON) = K3True THEN Some(FALSE)
                  ELSE None
    IN  IF branch = None THEN Some(FALSE) ELSE branch

\* cast_boolean_column on one cell: when(upper == "OUI").then(True)
\* .when(upper == "NON").then(False), null otherwise, then fill_null(False)
cast_boolean_column(cell) ==
    LET branch == IF K3Eq(to_uppercase(cell), OUI) = K3True THEN Some(TRUE)
                  ELSE IF K3Eq(to_uppercase(cell), NON) = K3True THEN Some(FALSE)
                  ELSE None
    IN  IF branch = None THEN Some(FALSE) ELSE branch

(***************************************************************************)
(* Raw feeds.  A raw frame is its set of columns and its rows.  A row      *)
(* holds one cell for every column the schema of the adapter declares; the *)
(* cells of a column the frame lacks are never read, since the selection   *)
(* of validate_raw_data raises first.                                      *)
(***************************************************************************)
\* a Brest row that passes every filter of the adapter; DT_MAT is year,
\* month, day, hour, minute, second
BrestRow(noarr, descriptif) ==
    [ NOARR |-> noarr, DESCRIPTIF |-> descriptif,
      LIBRU |-> Some("Rue A"), LIBCO |-> Some("Brest"),
      geometry |-> Some("LINESTRING"), SENS |-> Some(1),
      VELO |-> Some(<<"N", "o", "n">>), CYCLO |-> Some(<<"N", "o", "n">>),
      VITEMAX |-> Some(30),
      POIDS |-> None, HAUTEUR |-> None, LARGEUR |-> None,
      DT_MAT |-> Some(<<2020, 1, 15, 0, 0, 0>>) ]

\* the rows of the Brest feed: an arrete with a speed limitation and a
\* parking prohibition, a row without DT_MAT, one without geometry, one
\* with a height limit that exempts bicycles, one with a weight limit, and
\* one whose NOARR is empty
BrestRawRows ==
    { BrestRow("A", "Limitation Vitesse"),
      BrestRow("A", "Stationnement interdit"),
      with_columns(BrestRow("A", "Stationnement interdit"), [DT_MAT |-> None]),
      with_columns(BrestRow("A", "Stationnement interdit"), [geometry |-> None]),
      with_columns(BrestRow("B", "Limitation Hauteur"),
                   [HAUTEUR |-> Some(3), VELO |-> Some(<<"O", "u", "i">>)]),
      with_columns(BrestRow("B", "Limitation Poids"), [POIDS |-> Some(19)]),
      BrestRow("", "Stationnement interdit") }

\* a Sarthe row that passes the validation
SarthesRow(vitesse) ==
    [ infobulle |-> None, VITESSE |-> Some(vitesse), annee |-> Some(2020),
      date_modif |-> Some("2021-03-04"), geo_shape |-> Some("{LineString}"),
      loc_txt |-> Some("rue"), longueur |-> Some("1.5") ]

\* the rows of the Sarthe feed: a speed of 0 or 50, a row without annee,
\* and rows with a null in a column declared non-nullable
SarthesRawRows ==
    { SarthesRow(0), SarthesRow(50),
      with_columns(SarthesRow(70), [annee |-> None]),
      with_columns(SarthesRow(50), [geo_shape |-> None]),
      with_columns(SarthesRow(50), [date_modif |-> None]) }

RawRows(a) == IF a = "co_brest" THEN BrestRawRows ELSE SarthesRawRows

\* a column the source delivers and no schema declares
ExtraColumn == "objectid"

\* the column sets a raw frame may come with: every declared column, with
\* or without an undeclared one, or all declared columns but one
RawColumnSets(a) ==
    { raw_data_schema(a), raw_data_schema(a) \cup {ExtraColumn} }
        \cup { raw_data_schema(a) \ {c} : c \in raw_data_schema(a) }
        \cup { (raw_data_schema(a) \ {c}) \cup {ExtraColumn} :
                  c \in NonNullable(a) }

\* the feeds: every frame of at most MaxRows rows with exactly the declared
\* columns, and every column variant of the frames of at most one row
RawFrames(a) ==
    { [columns |-> raw_data_schema(a), rows |-> rs] :
        rs \in SeqsUpTo(RawRows(a), MaxRows) }
    \cup
    { [columns |-> cs, rows |-> rs] :
        cs \in RawColumnSets(a), rs \in SeqsUpTo(RawRows(a), 1) }

NoFrame == [columns |-> {}, rows |-> <<>>]

(***************************************************************************)
(* validate_raw_data                                                       *)
(***************************************************************************)
\* a selection that skips the absent columns instead of raising
SelectRaises_lenient(a, frame) == FALSE

\* raw_data.select(columns_to_keep) raises when a declared column is absent
SelectRaises(a, frame) == ~ (raw_data_schema(a) \subseteq frame.columns)

\* preprocess_raw_data: identity by default; Brest casts CYCLO and VELO to
\* booleans and then keeps the rows for which ~(NOARR.eq("")) is true
preprocess_raw_data(a, frame) ==
    IF a = "co_brest"
    THEN LET cast == MapRows(frame.rows,
                       [ r \in Range(frame.rows) |->
                           with_columns(r,
                             [ CYCLO |-> cast_boolean_column(r.CYCLO),
                               VELO |-> cast_boolean_column(r.VELO) ]) ])
         IN  [ columns |-> frame.columns,
               rows |-> FilterRows(cast,
                          { r \in Range(cast) :
                              K3Not(K3Eq(Some(r.NOARR), "")) = K3True }) ]
    ELSE frame

\* raw_data_schema.validate raises when a non-nullable column holds a null
SchemaRaises(a, frame) ==
    \E r \in Range(frame.rows) : \E c \in NonNullable(a) : r[c] = None

\* a validation that keeps every column of the raw frame
validate_raw_data_keep_all(a, frame) == preprocess_raw_data(a, frame)

\* the frame validate_raw_data returns when it does not raise
validate_raw_data(a, frame) ==
    preprocess_raw_data(a,
        [ columns |-> frame.columns \cap raw_data_schema(a),
          rows |-> frame.rows ])

ValidateRaises(a, frame) ==
    \/ SelectRaises(a, frame)
    \/ SchemaRaises(a, validate_raw_data(a, frame))

(***************************************************************************)
(* compute_clean_data of the Brest adapter                                 *)
(***************************************************************************)
SENS_UNIQUE == "Sens interdit / Sens unique"

\* the second filter of compute_measure_type:
\* ~(DESCRIPTIF.eq("Sens interdit / Sens unique") & SENS.eq(1))
NotSensUnique(r) ==
    K3Not(K3And(K3Eq(Some(r.DESCRIPTIF), SENS_UNIQUE), K3Eq(r.SENS, 1)))

\* compute_measure_type: keep the rows whose DESCRIPTIF is configured and
\* for which the second filter evaluates to true (DataFrame.filter drops
\* the rows whose predicate is false or null), and add measure_type_
compute_measure_type(rows) ==
    LET kept == FilterRows(rows, { r \in Range(rows) :
                    /\ r.DESCRIPTIF \in DOMAIN DESCRIPTION_CONFIG
                    /\ NotSensUnique(r) = K3True })
    IN  MapRows(kept,
                [ r \in Range(kept) |->
                    with_columns(r, [ measure_type_ |->
                                        DESCRIPTION_CONFIG[r.DESCRIPTIF] ]) ])

\* the literal between the two halves of a Brest title or label (the
\* source writes it with an en dash)
TitleSeparator == " - "

\* the sum of two string cells, null when either is null
StrPlus(x, y) == IF x = None \/ y = None THEN None
                 ELSE Some(x[1] \o TitleSeparator \o y[1])

\* a number written with at least two digits
Pad2(n) == IF n < 10 THEN "0" \o ToString(n) ELSE ToString(n)

\* dt.strftime("%Y-%m-%dT%H:%M:%SZ")
strftime(dt) ==
    ToString(dt[1]) \o "-" \o Pad2(dt[2]) \o "-" \o Pad2(dt[3]) \o "T"
        \o Pad2(dt[4]) \o ":" \o Pad2(dt[5]) \o ":" \o Pad2(dt[6]) \o "Z"

\* compute_save_period_fields: drop the rows whose DT_MAT is null, add the
\* six period_ columns
compute_save_period_fields(rows) ==
    LET kept == FilterRows(rows, { r \in Range(rows) : r.DT_MAT # None })
    IN  MapRows(kept,
                [ r \in Range(kept) |->
                    with_columns(r,
                      [ period_start_date |-> Some(strftime(r.DT_MAT[1])),
                        period_end_date |-> None,
                        period_start_time |-> None,
                        period_end_time |-> None,
                        period_recurrence_type |-> "everyDay",
                        period_is_permanent |-> TRUE ]) ])

\* the geometry read from its WKT text, reprojected to WGS84 and written
\* as GeoJSON, kept symbolic
to_geojson(wkt) == "geojson(" \o wkt \o ")"

\* compute_save_location_fields of the Brest adapter: drop the rows whose
\* geometry is null; the road type is always rawGeoJSON, the label is LIBCO
\* and LIBRU, the geometry is the reprojected geometry
BrestSaveLocationFields(rows) ==
    LET kept == FilterRows(rows, { r \in Range(rows) : r.geometry # None })
    IN  MapRows(kept,
                [ r \in Range(kept) |->
                    with_columns(r,
                      [ location_road_type |-> RAWGEOJSON,
                        location_label |-> StrPlus(r.LIBCO, r.LIBRU),
                        location_geometry |-> to_geojson(r.geometry[1]) ]) ])

\* cum_count().over("NOARR"): the rank of row i among the rows of its NOARR
RowNumInRegulation(rows, i) ==
    Cardinality({ j \in 1..i : rows[j].NOARR = rows[i].NOARR })

\* first_row_titles joined back: the title of the first row of the NOARR
\* of row i
FirstRowTitle(rows, i) ==
    LET first == CHOOSE j \in 1..Len(rows) :
                    /\ rows[j].NOARR = rows[i].NOARR
                    /\ RowNumInRegulation(rows, j) = 1
    IN  StrPlus(Some(rows[first].DESCRIPTIF), rows[first].LIBRU)

\* every row titled from its own DESCRIPTIF and LIBRU
compute_regulation_fields_own_title(rows) ==
    LET added == [ i \in 1..Len(rows) |->
                    with_columns(rows[i],
                      [ _row_num_in_regulation |-> RowNumInRegulation(rows, i),
                        regulation_title |->
                            StrPlus(Some(rows[i].DESCRIPTIF), rows[i].LIBRU),
                        regulation_identifier |-> rows[i].NOARR,
                        regulation_status |-> PUBLISHED,
                        regulation_category |-> PERMANENTREGULATION,
                        regulation_subject |-> SUBJECT_OTHER,
                        regulation_other_category_text |-> "Circulation" ]) ]
    IN  FilterRows(added, { r \in Range(added) : r.regulation_title # None })

\* compute_regulation_fields: add the regulation_* columns, the title being
\* the one of the first row of the NOARR, and drop the rows left without a
\* title
compute_regulation_fields(rows) ==
    LET added == [ i \in 1..Len(rows) |->
                    with_columns(rows[i],
                      [ _row_num_in_regulation |-> RowNumInRegulation(rows, i),
                        regulation_title |-> FirstRowTitle(rows, i),
                        regulation_identifier |-> rows[i].NOARR,
                        regulation_status |-> PUBLISHED,
                        regulation_category |-> PERMANENTREGULATION,
                        regulation_subject |-> SUBJECT_OTHER,
                        regulation_other_category_text |-> "Circulation" ]) ]
    IN  FilterRows(added, { r \in Range(added) : r.regulation_title # None })

\* a VITEMAX cell that is null or not positive
InvalidSpeed(v) == v = None \/ v[1] <= 0

\* a compute_measure_max_speed that drops only the null speeds
compute_measure_max_speed_null_only(rows) ==
    LET kept == FilterRows(rows, { r \in Range(rows) :
                    ~ (r.measure_type_ = SPEEDLIMITATION /\ r.VITEMAX = None) })
    IN  MapRows(kept,
                [ r \in Range(kept) |->
                    with_columns(r, [ measure_max_speed |->
                          IF r.measure_type_ = SPEEDLIMITATION
                          THEN r.VITEMAX ELSE None ]) ])

\* compute_measure_max_speed: drop the speed limitations with an invalid
\* VITEMAX, add measure_max_speed
compute_measure_max_speed(rows) ==
    LET kept == FilterRows(rows, { r \in Range(rows) :
                    ~ (r.measure_type_ = SPEEDLIMITATION /\ InvalidSpeed(r.VITEMAX)) })
    IN  MapRows(kept,
                [ r \in Range(kept) |->
                    with_columns(r, [ measure_max_speed |->
                          IF r.measure_type_ = SPEEDLIMITATION
                          THEN r.VITEMAX ELSE None ]) ])

\* the exempted_types of DESCRIPTION_CONFIG, null for the entries that
\* declare none and for the values that are no key
ConfigExemptedTypes(descriptif) ==
    IF descriptif = "Interdit a  tous vehicules a moteur"
    THEN Some(<<"bicycle", "pedestrians">>)
    ELSE IF descriptif = "Interdit aux vehicules a moteur sauf cyclos"
         THEN Some(<<"bicycle", "pedestrians", "other">>)
         ELSE None

\* build_exempted_types: the configured list, or the list built from CYCLO
\* and VELO, null when that list is empty
build_exempted_types(config_types, cyclo, velo) ==
    IF config_types # None THEN config_types
    ELSE LET Truthy(cell) == cell # None /\ cell[1]
             types == (IF Truthy(cyclo) THEN <<"other">> ELSE <<>>)
                         \o (IF Truthy(velo) THEN <<"bicycle">> ELSE <<>>)
         IN  IF types # <<>> THEN Some(types) ELSE None

\* compute_other_text as map_elements calls it on the List column
\* vehicle_exempted_types: a null cell is skipped and stays null; a
\* non-null cell arrives as a Series, and `not exempted_types` asks the
\* truth value of a Series, which raises TypeError before any text is
\* returned
compute_other_text(exempted_types) ==
    IF exempted_types = None THEN [value |-> None]
    ELSE [raised |-> "TypeError"]

\* vehicle_exempted_types of a row
ExemptedTypes(r) ==
    build_exempted_types(ConfigExemptedTypes(r.DESCRIPTIF), r.CYCLO, r.VELO)

\* compute_save_vehicle_fields raises when compute_other_text raises on a
\* row
compute_save_vehicle_fields_raises(rows) ==
    \E r \in Range(rows) :
        "raised" \in DOMAIN compute_other_text(ExemptedTypes(r))

\* compute_save_vehicle_fields: the seven vehicle_ columns; the text of a
\* row on which compute_other_text raised is null when the error of the
\* user function does not end the expression
compute_save_vehicle_fields(rows) ==
    MapRows(rows,
            [ r \in Range(rows) |->
                LET Dimension(cell) ==
                        IF cell = None \/ cell[1] = 0 THEN None ELSE cell
                    weight == Dimension(r.POIDS)
                    text == compute_other_text(ExemptedTypes(r))
                    restricted == IF weight # None
                                  THEN Some(<<"heavyGoodsVehicle">>) ELSE None
                IN  with_columns(r,
                      [ vehicle_heavyweight_max_weight |-> weight,
                        vehicle_max_height |-> Dimension(r.HAUTEUR),
                        vehicle_max_width |-> Dimension(r.LARGEUR),
                        vehicle_exempted_types |-> ExemptedTypes(r),
                        vehicle_other_exempted_type_text |->
                            IF "value" \in DOMAIN text THEN text.value
                            ELSE None,
                        vehicle_restricted_types |-> restricted,
                        vehicle_all_vehicles |->
                            IF restricted # None THEN Some(FALSE)
                            ELSE Some(TRUE) ]) ])

\* the first five pipes of compute_clean_data of the Brest adapter
BrestCleanDataPipes(rows) ==
    compute_measure_max_speed(
        compute_regulation_fields(
            BrestSaveLocationFields(
                compute_save_period_fields(compute_measure_type(rows)))))

\* compute_clean_data of the Brest adapter
BrestCleanData(rows) ==
    compute_save_vehicle_fields(BrestCleanDataPipes(rows))

(***************************************************************************)
(* compute_clean_data of the Sarthe adapter                                *)
(***************************************************************************)
\* compute_vitesse: drop the rows whose VITESSE is null, <= 0 or > 130
compute_vitesse(rows) ==
    FilterRows(rows, { r \in Range(rows) :
                         r.VITESSE # None /\ r.VITESSE[1] > 0
                                          /\ r.VITESSE[1] <= 130 })

\* hashlib.md5(s).hexdigest(), kept symbolic
deterministic_hash(s) == "md5(" \o s \o ")"

\* the id column: the hash of loc_txt|VITESSE|longueur, null when one of
\* the three is null
SarthesId(r) ==
    IF r.loc_txt = None \/ r.VITESSE = None \/ r.longueur = None THEN None
    ELSE Some(deterministic_hash(r.loc_txt[1] \o "|" \o ToString(r.VITESSE[1])
                                   \o "|" \o r.longueur[1]))

\* build_id_and_drop_duplicates: add id, drop every row whose (non-null) id
\* is carried by more than one row
build_id_and_drop_duplicates(rows) ==
    LET dup_ids == { SarthesId(rows[i]) : i \in
                       { k \in 1..Len(rows) :
                           /\ SarthesId(rows[k]) # None
                           /\ \E j \in 1..Len(rows) :
                                j # k /\ SarthesId(rows[j]) = SarthesId(rows[k]) } }
        kept == FilterRows(rows, { r \in Range(rows) : SarthesId(r) \notin dup_ids })
    IN  MapRows(kept,
                [ r \in Range(kept) |->
                    with_columns(r, [ id |-> SarthesId(r) ]) ])

\* compute_title: infobulle, or "Inconnu" when it is null or empty
compute_title(rows) ==
    MapRows(rows,
            [ r \in Range(rows) |->
                with_columns(r, [ title |->
                    IF r.infobulle = None \/ r.infobulle = Some("")
                    THEN "Inconnu" ELSE r.infobulle[1] ]) ])

\* compute_start_date: the six period_ columns; the start date is the
\* first of January of annee, or date_modif when annee is null
compute_start_date(rows) ==
    MapRows(rows,
            [ r \in Range(rows) |->
                with_columns(r,
                  [ period_start_date |->
                        IF r.annee # None
                        THEN Some(ToString(r.annee[1]) \o "-01-01T00:00:00Z")
                        ELSE r.date_modif,
                    period_end_date |-> None,
                    period_start_time |-> None,
                    period_end_time |-> None,
                    period_recurrence_type |-> "everyDay",
                    period_is_permanent |-> TRUE ]) ])

\* a label taken from loc_txt whenever it is not null, empty or not
compute_save_location_fields_empty_label(rows) ==
    LET kept == FilterRows(rows, { r \in Range(rows) : r.geo_shape # None })
    IN  MapRows(kept,
                [ r \in Range(kept) |->
                    with_columns(r,
                      [ location_road_type |-> RAWGEOJSON,
                        location_label |->
                            IF r.loc_txt # None THEN r.loc_txt[1] ELSE r.title,
                        location_geometry |-> r.geo_shape ]) ])

\* compute_save_location_fields of the Sarthe adapter: drop the rows whose
\* geo_shape is null; the road type is always rawGeoJSON, the label is
\* loc_txt, or title when loc_txt is null or empty, the geometry is
\* geo_shape
compute_save_location_fields(rows) ==
    LET kept == FilterRows(rows, { r \in Range(rows) : r.geo_shape # None })
    IN  MapRows(kept,
                [ r \in Range(kept) |->
                    with_columns(r,
                      [ location_road_type |-> RAWGEOJSON,
                        location_label |->
                            IF r.loc_txt # None /\ r.loc_txt # Some("")
                            THEN r.loc_txt[1] ELSE r.title,
                        location_geometry |-> r.geo_shape ]) ])

\* compute_clean_data of the Sarthe adapter: the pipeline, the filter on
\* location_geometry and the final select, which renames VITESSE to
\* max_speed
SarthesCleanData(rows) ==
    LET located == compute_save_location_fields(
                       compute_start_date(
                           compute_title(
                               build_id_and_drop_duplicates(
                                   compute_vitesse(rows)))))
        kept == FilterRows(located, { r \in Range(located) :
                                        r.location_geometry # None })
    IN  MapRows(kept,
                [ r \in Range(kept) |->
                    [ id |-> r.id, title |-> r.title, max_speed |-> r.VITESSE,
                      period_start_date |-> r.period_start_date,
                      period_end_date |-> r.period_end_date,
                      period_start_time |-> r.period_start_time,
                      period_end_time |-> r.period_end_time,
                      period_recurrence_type |-> r.period_recurrence_type,
                      period_is_permanent |-> r.period_is_permanent,
                      location_road_type |-> r.location_road_type,
                      location_label |-> r.location_label,
                      location_geometry |-> r.location_geometry ] ])

compute_clean_data(a, rows) ==
    IF a = "co_brest" THEN BrestCleanData(rows) ELSE SarthesCleanData(rows)

\* compute_clean_data raises when the last pipe of the Brest adapter does
compute_clean_data_raises(a, rows) ==
    /\ a = "co_brest"
    /\ compute_save_vehicle_fields_raises(BrestCleanDataPipes(rows))

\* select_regulation_measure_fields: keep the columns named in
\* RegulationMeasure
select_regulation_measure_fields(rows) ==
    MapRows(rows,
            [ r \in Range(rows) |->
                [ f \in (DOMAIN r) \cap RegulationMeasure |-> r[f] ] ])

(***************************************************************************)
(* create_measure and create_regulations                                   *)
(***************************************************************************)
\* the vehicle_ columns of RegulationMeasure and, of these, the list-valued
VehicleFields ==
    { "vehicle_all_vehicles", "vehicle_heavyweight_max_weight",
      "vehicle_max_height", "vehicle_max_width", "vehicle_exempted_types",
      "vehicle_restricted_types", "vehicle_other_exempted_type_text" }
VehicleListFields == { "vehicle_exempted_types", "vehicle_restricted_types" }

\* key.replace("vehicle_", "", 1)
StripVehicle ==
    [ vehicle_all_vehicles |-> "all_vehicles",
      vehicle_heavyweight_max_weight |-> "heavyweight_max_weight",
      vehicle_max_height |-> "max_height",
      vehicle_max_width |-> "max_width",
      vehicle_exempted_types |-> "exempted_types",
      vehicle_restricted_types |-> "restricted_types",
      vehicle_other_exempted_type_text |-> "other_exempted_type_text" ]

\* v in (None, [], {}): a null cell or an empty list
Discarded(key, cell) ==
    \/ cell = None
    \/ key \in VehicleListFields /\ cell[1] = <<>>

\* the vehicle_ columns of the row that survive the cleaning
Cleaned(row) ==
    { k \in (DOMAIN row) \cap VehicleFields : ~ Discarded(k, row[k]) }

\* a vehicle set reduced to all_vehicles as soon as the flag is true,
\* whatever else is set
create_save_vehicle_dto_always_simplified(row) ==
    IF "vehicle_all_vehicles" \in Cleaned(row)
       /\ row["vehicle_all_vehicles"] = Some(TRUE)
    THEN [ f \in {"all_vehicles"} |-> TRUE ]
    ELSE [ f \in { StripVehicle[k] : k \in Cleaned(row) } |->
             row[CHOOSE k \in Cleaned(row) : StripVehicle[k] = f][1] ]

\* create_save_vehicle_dto: the SaveVehicleSetDTO as the function from the
\* names of its set fields to their values
create_save_vehicle_dto(row) ==
    IF /\ "vehicle_all_vehicles" \in Cleaned(row)
       /\ row["vehicle_all_vehicles"] = Some(TRUE)
       /\ Cardinality(Cleaned(row)) = 1
    THEN [ f \in {"all_vehicles"} |-> TRUE ]
    ELSE [ f \in { StripVehicle[k] : k \in Cleaned(row) } |->
             row[CHOOSE k \in Cleaned(row) : StripVehicle[k] = f][1] ]

\* create_save_period_dto: the SavePeriodDTO as the function from the names
\* of the period_ columns of the row, prefix stripped, to their values
create_save_period_dto(row) ==
    LET strip == [ period_start_date |-> "start_date",
                   period_end_date |-> "end_date",
                   period_start_time |-> "start_time",
                   period_end_time |-> "end_time",
                   period_recurrence_type |-> "recurrence_type",
                   period_is_permanent |-> "is_permanent" ]
        keys == (DOMAIN row) \cap (DOMAIN strip)
    IN  [ f \in { strip[k] : k \in keys } |->
            row[CHOOSE k \in keys : strip[k] = f] ]

\* create_save_location_dto: the road type and the raw GeoJSON carrier with
\* the label and the geometry of the row
create_save_location_dto(row) ==
    [ road_type |-> row["location_road_type"],
      raw_geo_json |-> [ label |-> row["location_label"],
                         geometry |-> row["location_geometry"] ] ]

\* create_save_location_dto raises when a location_ column is absent or
\* the road type is outside the enumeration
create_save_location_dto_raises(row) ==
    \/ "location_road_type" \notin DOMAIN row
    \/ row["location_road_type"] \notin RoadTypeEnum
    \/ "location_label" \notin DOMAIN row
    \/ "location_geometry" \notin DOMAIN row

\* DialogIntegration.create_measure raises for a measure_type_ outside the
\* enumeration, for a location that cannot be built and for a speed
\* limitation without measure_max_speed
DefaultMeasureRaises(row) ==
    \/ "measure_type_" \notin DOMAIN row
    \/ row["measure_type_"] \notin MeasureTypeEnum
    \/ create_save_location_dto_raises(row)
    \/ /\ row["measure_type_"] = SPEEDLIMITATION
       /\ \/ "measure_max_speed" \notin DOMAIN row
          \/ row["measure_max_speed"] = None

\* a measure that carries the speed of any row holding one
DefaultMeasure_any_speed(row) ==
    [ type_ |-> row["measure_type_"],
      max_speed |-> IF "measure_max_speed" \in DOMAIN row
                    THEN row["measure_max_speed"] ELSE None,
      periods |-> <<create_save_period_dto(row)>>,
      locations |-> <<create_save_location_dto(row)>>,
      vehicle_set |-> create_save_vehicle_dto(row) ]

\* the SaveMeasureDTO of DialogIntegration.create_measure: its type, its
\* max_speed (None when unset), its one period, its one location and its
\* vehicle set
DefaultMeasure(row) ==
    [ type_ |-> row["measure_type_"],
      max_speed |-> IF row["measure_type_"] = SPEEDLIMITATION
                    THEN row["measure_max_speed"] ELSE None,
      periods |-> <<create_save_period_dto(row)>>,
      locations |-> <<create_save_location_dto(row)>>,
      vehicle_set |-> create_save_vehicle_dto(row) ]

\* the create_measure of the Sarthe adapter raises when max_speed is absent
\* or null, or when the location cannot be built
SarthesMeasureRaises(row) ==
    \/ "max_speed" \notin DOMAIN row
    \/ row["max_speed"] = None
    \/ create_save_location_dto_raises(row)

SarthesMeasure(row) ==
    [ type_ |-> SPEEDLIMITATION, max_speed |-> row["max_speed"],
      periods |-> <<create_save_period_dto(row)>>,
      locations |-> <<create_save_location_dto(row)>>,
      vehicle_set |-> [ f \in {"all_vehicles"} |-> TRUE ] ]

RECURSIVE DefaultMeasures_abort(_)
\* the measures of one group, given up at the first row that fails
DefaultMeasures_abort(rows) ==
    IF rows = <<>> THEN <<>>
    ELSE IF DefaultMeasureRaises(Head(rows)) THEN <<>>
         ELSE <<DefaultMeasure(Head(rows))>> \o DefaultMeasures_abort(Tail(rows))

RECURSIVE DefaultMeasures(_)
\* the measures of one group: one per row whose create_measure succeeds
DefaultMeasures(rows) ==
    IF rows = <<>> THEN <<>>
    ELSE IF DefaultMeasureRaises(Head(rows)) THEN DefaultMeasures(Tail(rows))
         ELSE <<DefaultMeasure(Head(rows))>> \o DefaultMeasures(Tail(rows))

\* the rows of the group of a regulation_identifier, in frame order
GroupOf(rows, key) ==
    FilterRows(rows, { r \in Range(rows) : r["regulation_identifier"] = key })

\* the regulation fields read from the first row whose measure was built
first_row_built(group_df) ==
    FilterRows(group_df, { r \in Range(group_df) : ~ DefaultMeasureRaises(r) })[1]

\* group_df.row(0, named=True)
first_row(group_df) == group_df[1]

\* the regulation_ columns create_regulations reads from the first row
RegulationFields ==
    { "regulation_identifier", "regulation_category", "regulation_status",
      "regulation_subject", "regulation_title",
      "regulation_other_category_text" }

\* building the PostApiRegulationsAddBody of the first row raises when a
\* regulation_ column is absent or holds a value outside its enumeration
RegulationRaises(head_row) ==
    \/ ~ (RegulationFields \subseteq DOMAIN head_row)
    \/ head_row["regulation_category"] \notin PostApiRegulationsAddBodyCategory
    \/ head_row["regulation_status"] \notin PostApiRegulationsAddBodyStatus
    \/ head_row["regulation_subject"] \notin PostApiRegulationsAddBodySubject

\* the PostApiRegulationsAddBody built from a first row and the measures
Regulation(head_row, measures) ==
    [ identifier |-> head_row["regulation_identifier"],
      category |-> head_row["regulation_category"],
      status |-> head_row["regulation_status"],
      subject |-> head_row["regulation_subject"],
      title |-> head_row["regulation_title"],
      other_category_text |-> head_row["regulation_other_category_text"],
      measures |-> measures ]

\* DialogIntegration.create_regulations raises when a group with a measure
\* has a first row no regulation can be built from
DefaultRegulationsRaises(rows) ==
    \E r \in Range(rows) :
        LET group_df == GroupOf(rows, r["regulation_identifier"])
        IN  /\ DefaultMeasures(group_df) # <<>>
            /\ RegulationRaises(first_row(group_df))

RECURSIVE DefaultRegulations_keep_empty(_, _)
\* a regulation built for every group, with or without measures
DefaultRegulations_keep_empty(rows, order) ==
    IF order = <<>> THEN <<>>
    ELSE LET group_df == GroupOf(rows, Head(order))
         IN  << Regulation(first_row(group_df), DefaultMeasures(group_df)) >>
                 \o DefaultRegulations_keep_empty(rows, Tail(order))

RECURSIVE DefaultRegulations(_, _)
\* DialogIntegration.create_regulations when it returns, the groups taken
\* in the order group_by yields them
DefaultRegulations(rows, order) ==
    IF order = <<>> THEN <<>>
    ELSE LET group_df == GroupOf(rows, Head(order))
             measures == DefaultMeasures(group_df)
             rest == DefaultRegulations(rows, Tail(order))
         IN  IF measures = <<>> THEN rest
             ELSE << Regulation(first_row(group_df), measures) >> \o rest

\* a nullable string cell as an f-string formats it
Str(cell) == IF cell = None THEN "None" ELSE cell[1]

RECURSIVE SarthesRegulations(_)
\* Integration.create_regulations of the Sarthe adapter: one regulation per
\* row, a row whose construction raises is skipped
SarthesRegulations(rows) ==
    IF rows = <<>> THEN <<>>
    ELSE LET row == Head(rows)
             rest == SarthesRegulations(Tail(rows))
         IN  IF \/ SarthesMeasureRaises(row)
                \/ "id" \notin DOMAIN row
                \/ "title" \notin DOMAIN row
             THEN rest
             ELSE << [ identifier |-> Str(row["id"]),
                       category |-> PERMANENTREGULATION,
                       status |-> DRAFT,
                       subject |-> SUBJECT_OTHER,
                       title |-> row["title"],
                       other_category_text |-> "Limitation de vitesse",
                       measures |-> << SarthesMeasure(row) >> ] >> \o rest

\* group_by yielding every group twice
GroupOrders_repeating(rows) ==
    LET keys == { r["regulation_identifier"] : r \in
                    { x \in Range(rows) : "regulation_identifier" \in DOMAIN x } }
    IN  { o \o o : o \in { p \in SeqsUpTo(keys, Cardinality(keys)) :
                             Len(p) = Cardinality(keys) /\ NoDup(p) } }

\* the orders in which group_by may yield the groups of a frame
GroupOrders(rows) ==
    LET keys == { r["regulation_identifier"] : r \in
                    { x \in Range(rows) : "regulation_identifier" \in DOMAIN x } }
    IN  { o \in SeqsUpTo(keys, Cardinality(keys)) :
            Len(o) = Cardinality(keys) /\ NoDup(o) }

\* create_regulations of the adapter raises: only the inherited one can
create_regulations_raises(a, rows) ==
    a = "co_brest" /\ DefaultRegulationsRaises(rows)

\* create_regulations of the adapter when it returns
create_regulations(a, rows, order) ==
    IF a = "co_brest" THEN DefaultRegulations(rows, order)
    ELSE SarthesRegulations(rows)

\* an identifier left as the adapter built it
Suffixed_none(identifier) == identifier

\* integrate_regulations appends the run suffix to every built identifier
Suffixed(identifier) == identifier \o RunSuffix

RECURSIVE WithSuffix(_)
WithSuffix(regs) ==
    IF regs = <<>> THEN <<>>
    ELSE << [ Head(regs) EXCEPT !.identifier = Suffixed(@) ] >>
            \o WithSuffix(Tail(regs))

\* the identifiers of a list of regulations
RECURSIVE Identifiers(_)
Identifiers(regs) ==
    IF regs = <<>> THEN <<>>
    ELSE <<Head(regs).identifier>> \o Identifiers(Tail(regs))

\* the difference computed without removing the known identifiers
regulation_ids_to_integrate_all(regs, known) == Range(Identifiers(regs))

\* the set difference of integrate_regulations
regulation_ids_to_integrate(regs, known) ==
    Range(Identifiers(regs)) \ Range(known)

\* every built regulation kept, whatever the set of identifiers
ToIntegrate_unfiltered(regs, ids) == regs

RECURSIVE ToIntegrate(_, _)
\* the regulations whose identifier is in the set ids, in list order
ToIntegrate(regs, ids) ==
    IF regs = <<>> THEN <<>>
    ELSE IF Head(regs).identifier \in ids
         THEN <<Head(regs)>> \o ToIntegrate(Tail(regs), ids)
         ELSE ToIntegrate(Tail(regs), ids)

(***************************************************************************)
(* The remote registry and the outcomes of its calls                       *)
(***************************************************************************)
\* identifiers the registry may know before the first run
KnownUniverse == {"A-0", "B-0", "A"}

InitialRegistries ==
    { s \in SeqsUpTo(KnownUniverse, MaxKnown) : NoDup(s) }

\* get identifiers: a parsed body with identifiers, no parsed body, a parsed
\* body without the identifiers attribute, or an exception of the client
FetchOutcomes == {"ok", "parsed_none", "no_identifiers", "exception"}

\* add regulation: a response (status 201 or another status, its body JSON
\* or not) or an exception raised by the call
AddOutcomes ==
    { [kind |-> "response", status |-> 201, json |-> TRUE],
      [kind |-> "response", status |-> 400, json |-> TRUE],
      [kind |-> "response", status |-> 400, json |-> FALSE],
      [kind |-> "exception", status |-> 0, json |-> FALSE] }

\* publish regulation: status 200, another status, or an exception
PublishOutcomes ==
    { [kind |-> "response", status |-> 200],
      [kind |-> "response", status |-> 400],
      [kind |-> "exception", status |-> 0] }

\* the local variable resp of _integrate_regulations before its first
\* assignment
Unbound == [bound |-> FALSE, status |-> 0, json |-> FALSE, of |-> ""]

Commands == {"integrate", "publish", "publish_regulations"}

\* cli.integrate loading integrations/<organization>/main.py: the module is
\* loaded and has a main, the file is absent, no loader is found, the module
\* raises while it is executed, or it has no main
LoadOutcomes ==
    {"ok", "FileNotFoundError", "ImportError", "Exception", "AttributeError"}

\* cli.publish building the settings and the client of the organization:
\* both are built, from_organization is not an attribute of
\* OrganizationSettings, or the settings lack a value
SettingsOutcomes == {"ok", "AttributeError", "Exception"}

\* no exit status yet
NoExit == -1
NoReport == <<>>
NoFirst ==
    [ raw_data |-> NoFrame, diffed |-> FALSE, to_integrate |-> <<>>,
      accepted |-> {} ]

(***************************************************************************)
(* State                                                                   *)
(***************************************************************************)
VARIABLES
    cmd,            \* the command being run
    adapter,        \* the organization whose Integration is loaded
    run,            \* 1 for the first run of integrate, 2 for the second
    pc,             \* position in the command
    registry,       \* the identifiers the remote registry knows, as listed
    raw_data,       \* the frame fetch_raw_data returns
    clean_data,     \* the frame after compute_clean_data and the selection
    regulations,    \* the built regulations, identifiers suffixed
    identifiers,    \* the list fetched from the registry
    fetched,        \* the outcome of the identifier fetch, "" before it
    regulations_to_integrate,
    index,          \* number of loop iterations completed
    resp,           \* the local resp of _integrate_regulations
    count_error,    \* the failure counter of the loop
    has_error,      \* the flag of the publish command
    calls,          \* the add or publish calls issued in this run
    logged,         \* per handled failure: whose response detail was logged
    steps,          \* the pipeline steps executed in this run
    report,         \* the counts logged at the end of the run
    raised,         \* the exception that escaped, "" when none
    exit_code,      \* the exit status of the command
    first,          \* what the first run of integrate did, kept while the
                    \* second run reads the same frame
    arg,            \* the argument of the function applied on its own
    result          \* what that application returned or raised

vars == << cmd, adapter, run, pc, registry, raw_data, clean_data, regulations,
           identifiers, fetched, regulations_to_integrate, index, resp, count_error,
           has_error, calls, logged, steps, report, raised, exit_code, first,
           arg, result >>

\* no function is applied on its own during a command
NoArg == <<>>
NoResult == [returned |-> FALSE, value |-> <<>>]

\* the variables a run starts from
RunReset ==
    /\ clean_data' = <<>>
    /\ regulations' = <<>>
    /\ identifiers' = <<>>
    /\ fetched' = ""
    /\ regulations_to_integrate' = <<>>
    /\ index' = 0
    /\ resp' = Unbound
    /\ count_error' = 0
    /\ has_error' = FALSE
    /\ calls' = <<>>
    /\ logged' = <<>>
    /\ steps' = {}
    /\ report' = NoReport
    /\ raised' = ""
    /\ exit_code' = NoExit

Init ==
    /\ cmd \in Commands
    /\ adapter \in Adapters
    /\ run = 1
    /\ pc = "start"
    /\ registry \in InitialRegistries
    /\ raw_data = NoFrame
    /\ clean_data = <<>>
    /\ regulations = <<>>
    /\ identifiers = <<>>
    /\ fetched = ""
    /\ regulations_to_integrate = <<>>
    /\ index = 0
    /\ resp = Unbound
    /\ count_error = 0
    /\ has_error = FALSE
    /\ calls = <<>>
    /\ logged = <<>>
    /\ steps = {}
    /\ report = NoReport
    /\ raised = ""
    /\ exit_code = NoExit
    /\ first = NoFirst
    /\ arg = NoArg
    /\ result = NoResult

(***************************************************************************)
(* The integrate command: cli.integrate -> main -> integrate_regulations   *)
(***************************************************************************)
\* the callback of the command-line tool, run before the commands
\* integrate and publish: it returns, or Settings() raises TypeError for
\* its missing organization argument, or the import of get_client at the
\* head of cli.py raises ImportError before the callback is reached; the
\* exception is caught by nothing and ends the process with status 1
cli_main ==
    /\ cmd \in {"integrate", "publish"} /\ pc = "start"
    /\ \E o \in {"ok", "TypeError", "ImportError"} :
         IF o = "ok"
         THEN /\ pc' = "command"
              /\ UNCHANGED << raised, exit_code >>
         ELSE /\ raised' = o
              /\ exit_code' = 1
              /\ pc' = "done"
    /\ UNCHANGED << cmd, adapter, run, registry, raw_data, clean_data,
                    regulations, identifiers, fetched, regulations_to_integrate, index,
                    resp, count_error, has_error, calls, logged, steps, report,
                    first >>
    /\ UNCHANGED << arg, result >>

\* cli.integrate up to the call of the organization's main(): the file
\* main.py must exist, load and have a main; every failure is caught by
\* the except clauses of the command
integrate ==
    /\ cmd = "integrate" /\ pc = "command"
    /\ \E o \in LoadOutcomes :
         IF o = "ok"
         THEN /\ pc' = "main"
              /\ UNCHANGED raised
         ELSE /\ raised' = o
              /\ pc' = "exit"
    /\ UNCHANGED << cmd, adapter, run, registry, raw_data, clean_data,
                    regulations, identifiers, fetched, regulations_to_integrate, index,
                    resp, count_error, has_error, calls, logged, steps, report,
                    exit_code, first >>
    /\ UNCHANGED << arg, result >>

\* main() of the organization: build the Integration
\* (DialogIntegration.from_organization raises when the settings of the
\* organization lack a value), run integrate_regulations
main ==
    /\ cmd = "integrate" /\ pc = "main"
    /\ \E o \in {"ok", "Exception"} :
         IF o = "ok"
         THEN /\ pc' = "fetch_raw_data"
              /\ UNCHANGED raised
         ELSE /\ raised' = o
              /\ pc' = "exit"
    /\ UNCHANGED << cmd, adapter, run, registry, raw_data, clean_data,
                    regulations, identifiers, fetched, regulations_to_integrate, index,
                    resp, count_error, has_error, calls, logged, steps, report,
                    exit_code, first >>
    /\ UNCHANGED << arg, result >>

\* integrate_regulations: raw_data = self.fetch_raw_data(); a frame is
\* read, or requests.get raises ConnectionError, or raise_for_status raises
\* HTTPError; the Brest adapter also raises BadZipFile for a body that is
\* no zip archive, StopIteration for an archive without a .shp file and
\* DataSourceError when read_file does not find the shapefile of the
\* expected name; the Sarthe adapter raises NoDataError when read_csv is
\* given an empty body. Nothing in integrate_regulations catches these.
\* Every run downloads the feed anew; the record of the first run is kept
\* only while the second run reads the frame the first run read
fetch_raw_data ==
    /\ cmd = "integrate" /\ pc = "fetch_raw_data"
    /\ steps' = steps \cup {"fetch_raw_data"}
    /\ \E o \in {"ok", "ConnectionError", "HTTPError"}
                 \cup (IF adapter = "co_brest"
                       THEN {"BadZipFile", "StopIteration", "DataSourceError"}
                       ELSE {"NoDataError"}) :
         IF o = "ok"
         THEN /\ raw_data' \in RawFrames(adapter)
              /\ first' = IF raw_data' = first.raw_data THEN first
                          ELSE NoFirst
              /\ pc' = "validate_raw_data"
              /\ UNCHANGED raised
         ELSE /\ raised' = o
              /\ pc' = "exit"
              /\ UNCHANGED << raw_data, first >>
    /\ UNCHANGED << cmd, adapter, run, registry, clean_data, regulations,
                    identifiers, fetched, regulations_to_integrate, index, resp,
                    count_error, has_error, calls, logged, report,
                    exit_code >>
    /\ UNCHANGED << arg, result >>

\* integrate_regulations: validated_data = self.validate_raw_data(raw_data)
validate_raw_data_step ==
    /\ cmd = "integrate" /\ pc = "validate_raw_data"
    /\ steps' = steps \cup {"validate_raw_data"}
    /\ IF ValidateRaises(adapter, raw_data)
       THEN /\ raised' = IF SelectRaises(adapter, raw_data)
                         THEN "ColumnNotFoundError" ELSE "SchemaError"
            /\ pc' = "exit"
            /\ UNCHANGED clean_data
       ELSE /\ clean_data' = validate_raw_data(adapter, raw_data).rows
            /\ pc' = "compute_clean_data"
            /\ UNCHANGED raised
    /\ UNCHANGED << cmd, adapter, run, registry, raw_data, regulations,
                    identifiers, fetched, regulations_to_integrate, index, resp,
                    count_error, has_error, calls, logged, report, exit_code,
                    first >>
    /\ UNCHANGED << arg, result >>

\* integrate_regulations: compute_clean_data, then
\* select_regulation_measure_fields
compute_clean_data_step ==
    /\ cmd = "integrate" /\ pc = "compute_clean_data"
    /\ steps' = steps \cup {"compute_clean_data"}
    /\ \E udf_error \in {"raised", "null"} :
         IF compute_clean_data_raises(adapter, clean_data)
            /\ udf_error = "raised"
         THEN /\ raised' = "TypeError"
              /\ pc' = "exit"
              /\ UNCHANGED clean_data
         ELSE /\ clean_data' = select_regulation_measure_fields(
                                   compute_clean_data(adapter, clean_data))
              /\ pc' = "create_regulations"
              /\ UNCHANGED raised
    /\ UNCHANGED << cmd, adapter, run, registry, raw_data, regulations,
                    identifiers, fetched, regulations_to_integrate, index, resp,
                    count_error, has_error, calls, logged, report,
                    exit_code, first >>
    /\ UNCHANGED << arg, result >>

\* integrate_regulations: create_regulations, then the suffix loop
create_regulations_step ==
    /\ cmd = "integrate" /\ pc = "create_regulations"
    /\ steps' = steps \cup {"create_regulations"}
    /\ IF create_regulations_raises(adapter, clean_data)
       THEN /\ raised' = "ValueError"
            /\ pc' = "exit"
            /\ UNCHANGED regulations
       ELSE /\ \E order \in GroupOrders(clean_data) :
                 regulations' =
                     WithSuffix(create_regulations(adapter, clean_data, order))
            /\ pc' = "fetch_regulation_ids"
            /\ UNCHANGED raised
    /\ UNCHANGED << cmd, adapter, run, registry, raw_data, clean_data,
                    identifiers, fetched, regulations_to_integrate, index, resp,
                    count_error, has_error, calls, logged, report,
                    exit_code, first >>
    /\ UNCHANGED << arg, result >>

\* fetch_regulation_ids returning an empty list instead of raising when the
\* parsed body is missing or has no identifiers
fetch_regulation_ids_lenient ==
    /\ cmd \in {"integrate", "publish_regulations"}
    /\ pc = IF cmd = "integrate" THEN "fetch_regulation_ids" ELSE "start"
    /\ steps' = steps \cup {"fetch_regulation_ids"}
    /\ \E o \in FetchOutcomes :
         /\ fetched' = o
         /\ IF o # "exception"
            THEN /\ identifiers' = IF o = "ok" THEN registry ELSE <<>>
                 /\ pc' = IF cmd = "integrate" THEN "diff" ELSE "publish"
                 /\ UNCHANGED raised
            ELSE /\ raised' = "ClientError"
                 /\ pc' = IF cmd = "integrate" THEN "exit" ELSE "done"
                 /\ UNCHANGED identifiers
    /\ UNCHANGED << cmd, adapter, run, registry, raw_data, clean_data,
                    regulations, regulations_to_integrate, index, resp,
                    count_error, has_error, calls, logged, report, exit_code,
                    first >>
    /\ UNCHANGED << arg, result >>

\* fetch_regulation_ids, as integrate_regulations and publish_regulations
\* call it: raises unless the parsed body has identifiers
fetch_regulation_ids ==
    /\ cmd \in {"integrate", "publish_regulations"}
    /\ pc = IF cmd = "integrate" THEN "fetch_regulation_ids" ELSE "start"
    /\ steps' = steps \cup {"fetch_regulation_ids"}
    /\ \E o \in FetchOutcomes :
         /\ fetched' = o
         /\ IF o = "ok"
            THEN /\ identifiers' = registry
                 /\ pc' = IF cmd = "integrate" THEN "diff" ELSE "publish"
                 /\ UNCHANGED raised
            ELSE /\ raised' = IF o = "exception" THEN "ClientError"
                              ELSE "Exception"
                 /\ pc' = IF cmd = "integrate" THEN "exit" ELSE "done"
                 /\ UNCHANGED identifiers
    /\ UNCHANGED << cmd, adapter, run, registry, raw_data, clean_data,
                    regulations, regulations_to_integrate, index, resp,
                    count_error, has_error, calls, logged, report, exit_code,
                    first >>
    /\ UNCHANGED << arg, result >>

\* integrate_regulations: the set difference and the list of regulations to
\* integrate
diff ==
    /\ cmd = "integrate" /\ pc = "diff"
    /\ steps' = steps \cup {"diff"}
    /\ regulations_to_integrate' =
           ToIntegrate(regulations,
                       regulation_ids_to_integrate(regulations, identifiers))
    /\ pc' = "add_regulation"
    /\ UNCHANGED << cmd, adapter, run, registry, raw_data, clean_data,
                    regulations, identifiers, fetched, index, resp, count_error,
                    has_error, calls, logged, report, raised, exit_code,
                    first >>
    /\ UNCHANGED << arg, result >>

\* _integrate_regulations: one iteration of the loop.  The try block calls
\* add_regulation and asserts status 201; the except block logs
\* json.loads(resp.content) and counts the failure.
add_regulation ==
    /\ cmd = "integrate" /\ pc = "add_regulation"
    /\ index < Len(regulations_to_integrate)
    /\ steps' = steps \cup {"add_regulation"}
    /\ \E o \in AddOutcomes :
         LET regulation == regulations_to_integrate[index + 1]
             new_resp == IF o.kind = "response"
                         THEN [ bound |-> TRUE, status |-> o.status,
                                json |-> o.json, of |-> regulation.identifier ]
                         ELSE resp
             failed == o.kind = "exception" \/ o.status # 201
         IN  /\ calls' = Append(calls, [ identifier |-> regulation.identifier,
                                         kind |-> o.kind, status |-> o.status ])
             /\ registry' = IF ~ failed
                            THEN Append(registry, regulation.identifier)
                            ELSE registry
             /\ resp' = new_resp
             /\ IF ~ failed
                THEN /\ index' = index + 1
                     /\ UNCHANGED << count_error, logged, raised, pc >>
                ELSE IF ~ new_resp.bound
                THEN /\ raised' = "UnboundLocalError"
                     /\ pc' = "exit"
                     /\ UNCHANGED << index, count_error, logged >>
                ELSE IF ~ new_resp.json
                THEN /\ raised' = "JSONDecodeError"
                     /\ pc' = "exit"
                     /\ UNCHANGED << index, count_error, logged >>
                ELSE /\ logged' = Append(logged,
                                         [ failed |-> regulation.identifier,
                                           detail_of |-> new_resp.of ])
                     /\ count_error' = count_error + 1
                     /\ index' = index + 1
                     /\ UNCHANGED << raised, pc >>
    /\ UNCHANGED << cmd, adapter, run, raw_data, clean_data, regulations,
                    identifiers, fetched, regulations_to_integrate, has_error, report,
                    exit_code, first >>
    /\ UNCHANGED << arg, result >>

\* _integrate_regulations after the loop: the success count is logged
integrate_finish ==
    /\ cmd = "integrate" /\ pc = "add_regulation"
    /\ index = Len(regulations_to_integrate)
    /\ report' = << Len(regulations_to_integrate) - count_error,
                    Len(regulations_to_integrate) >>
    /\ pc' = "exit"
    /\ UNCHANGED << cmd, adapter, run, registry, raw_data, clean_data,
                    regulations, identifiers, fetched, regulations_to_integrate, index,
                    resp, count_error, has_error, calls, logged, steps, raised,
                    exit_code, first >>
    /\ UNCHANGED << arg, result >>

\* cli.integrate: any exception of main() ends in typer.Exit(code=1), a
\* normal return in exit status 0
integrate_exit ==
    /\ cmd = "integrate" /\ pc = "exit"
    /\ exit_code' = IF raised # "" THEN 1 ELSE 0
    /\ pc' = "done"
    /\ UNCHANGED << cmd, adapter, run, registry, raw_data, clean_data,
                    regulations, identifiers, fetched, regulations_to_integrate, index,
                    resp, count_error, has_error, calls, logged, steps, report,
                    raised, first >>
    /\ UNCHANGED << arg, result >>

\* the identifiers of the add calls that returned 201
Accepted(cs) ==
    { cs[i].identifier : i \in { k \in 1..Len(cs) : cs[k].status = 201 } }

\* the integrate command is started again; the registry is as the first
\* run left it; a first run that computed its difference is remembered
\* with the frame it read
rerun ==
    /\ cmd = "integrate" /\ pc = "done" /\ run = 1
    /\ run' = 2
    /\ pc' = "start"
    /\ raw_data' = NoFrame
    /\ first' = IF "diff" \in steps
                THEN [ raw_data |-> raw_data,
                       diffed |-> TRUE,
                       to_integrate |-> Identifiers(regulations_to_integrate),
                       accepted |-> Accepted(calls) ]
                ELSE NoFirst
    /\ RunReset
    /\ UNCHANGED << cmd, adapter, registry >>
    /\ UNCHANGED << arg, result >>

(***************************************************************************)
(* The publish command of cli.py                                           *)
(***************************************************************************)
\* publish: the settings and the client of the organization, then
\* get_identifiers and the check of the parsed body
publish_fetch ==
    /\ cmd = "publish" /\ pc = "command"
    /\ \E built \in SettingsOutcomes :
         IF built # "ok"
         THEN /\ raised' = built
              /\ exit_code' = 1
              /\ pc' = "done"
              /\ UNCHANGED << steps, fetched, identifiers >>
         ELSE /\ steps' = steps \cup {"get_identifiers"}
              /\ \E o \in FetchOutcomes :
                   /\ fetched' = o
                   /\ IF o = "ok"
                      THEN /\ identifiers' = registry
                           /\ pc' = "publish"
                           /\ UNCHANGED << raised, exit_code >>
                      ELSE /\ raised' = IF o = "exception"
                                        THEN "ClientError" ELSE "Exit"
                           /\ exit_code' = 1
                           /\ pc' = "done"
                           /\ UNCHANGED identifiers
    /\ UNCHANGED << cmd, adapter, run, registry, raw_data, clean_data,
                    regulations, regulations_to_integrate, index, resp,
                    count_error, has_error, calls, logged, report, first >>
    /\ UNCHANGED << arg, result >>

\* publish: one iteration of the loop; there is no try block around the
\* call
publish_step ==
    /\ cmd = "publish" /\ pc = "publish"
    /\ index < Len(identifiers)
    /\ steps' = steps \cup {"publish_regulation"}
    /\ \E o \in PublishOutcomes :
         /\ calls' = Append(calls, [ identifier |-> identifiers[index + 1],
                                     kind |-> o.kind, status |-> o.status ])
         /\ IF o.kind = "exception"
            THEN /\ raised' = "ClientError"
                 /\ exit_code' = 1
                 /\ pc' = "done"
                 /\ UNCHANGED << index, has_error >>
            ELSE /\ has_error' = (has_error \/ o.status # 200)
                 /\ index' = index + 1
                 /\ UNCHANGED << raised, exit_code, pc >>
    /\ UNCHANGED << cmd, adapter, run, registry, raw_data, clean_data,
                    regulations, identifiers, fetched, regulations_to_integrate, resp,
                    count_error, logged, report, first >>
    /\ UNCHANGED << arg, result >>

\* the end of publish without the has_error check
publish_finish_unchecked ==
    /\ cmd = "publish" /\ pc = "publish"
    /\ index = Len(identifiers)
    /\ exit_code' = 0
    /\ pc' = "done"
    /\ UNCHANGED << cmd, adapter, run, registry, raw_data, clean_data,
                    regulations, identifiers, fetched,
                    regulations_to_integrate, index, resp, count_error,
                    has_error, calls, logged, steps, report, raised, first >>
    /\ UNCHANGED << arg, result >>

\* publish after the loop: typer.Exit(code=1) when has_error
publish_finish ==
    /\ cmd = "publish" /\ pc = "publish"
    /\ index = Len(identifiers)
    /\ IF has_error
       THEN raised' = "Exit" /\ exit_code' = 1
       ELSE raised' = raised /\ exit_code' = 0
    /\ pc' = "done"
    /\ UNCHANGED << cmd, adapter, run, registry, raw_data, clean_data,
                    regulations, identifiers, fetched, regulations_to_integrate, index,
                    resp, count_error, has_error, calls, logged, steps, report,
                    first >>
    /\ UNCHANGED << arg, result >>

(***************************************************************************)
(* DialogIntegration.publish_regulations                                   *)
(***************************************************************************)
\* publish_regulations: one iteration of the loop; only an exception of
\* the call counts as an error
publish_regulations_step ==
    /\ cmd = "publish_regulations" /\ pc = "publish"
    /\ index < Len(identifiers)
    /\ steps' = steps \cup {"publish_regulation"}
    /\ \E o \in PublishOutcomes :
         /\ calls' = Append(calls, [ identifier |-> identifiers[index + 1],
                                     kind |-> o.kind, status |-> o.status ])
         /\ count_error' = IF o.kind = "exception"
                           THEN count_error + 1 ELSE count_error
    /\ index' = index + 1
    /\ UNCHANGED << cmd, adapter, run, pc, registry, raw_data, clean_data,
                    regulations, identifiers, fetched, regulations_to_integrate, resp,
                    has_error, logged, report, raised, exit_code, first >>
    /\ UNCHANGED << arg, result >>

\* publish_regulations after the loop: the counts are logged
publish_regulations_finish ==
    /\ cmd = "publish_regulations" /\ pc = "publish"
    /\ index = Len(identifiers)
    /\ report' = << Len(identifiers) - count_error, count_error,
                    Len(identifiers) >>
    /\ pc' = "done"
    /\ UNCHANGED << cmd, adapter, run, registry, raw_data, clean_data,
                    regulations, identifiers, fetched, regulations_to_integrate, index,
                    resp, count_error, has_error, calls, logged, steps, raised,
                    exit_code, first >>
    /\ UNCHANGED << arg, result >>

Next ==
    \/ cli_main
    \/ integrate
    \/ main
    \/ fetch_raw_data
    \/ validate_raw_data_step
    \/ compute_clean_data_step
    \/ create_regulations_step
    \/ fetch_regulation_ids
    \/ diff
    \/ add_regulation
    \/ integrate_finish
    \/ integrate_exit
    \/ rerun
    \/ publish_fetch
    \/ publish_step
    \/ publish_finish
    \/ publish_regulations_step
    \/ publish_regulations_finish

Spec == Init /\ [][Next]_vars

(***************************************************************************)
(* The functions of the pipeline applied on their own: the argument is     *)
(* drawn in the initial state, one action applies the function named by    *)
(* cmd and records what it returned or that it raised.                     *)
(***************************************************************************)
Functions ==
    { "validate_raw_data", "compute_regulation_fields", "create_measure",
      "create_save_vehicle_dto", "create_regulations",
      "compute_measure_type",
      "cast_boolean_column",
      "compute_save_location_fields",
      "build_id_and_drop_duplicates",
      "compute_measure_max_speed",
      "publish_implementations" }

\* the functions of the Sarthe adapter among them
SarthesFunctions == { "compute_save_location_fields", "build_id_and_drop_duplicates" }

Returned(v) == [returned |-> TRUE, value |-> v]
Raised == [returned |-> FALSE, value |-> <<>>]

\* two rows of one arrete followed by one row of another
RegulationFieldsExample ==
    << [NOARR |-> "A", DESCRIPTIF |-> "Limitation Vitesse", LIBRU |-> Some("Rue A")],
       [NOARR |-> "A", DESCRIPTIF |-> "Stationnement interdit", LIBRU |-> Some("Rue C")],
       [NOARR |-> "B", DESCRIPTIF |-> "Stationnement interdit", LIBRU |-> Some("Rue C")] >>

\* rows handed to compute_regulation_fields: the columns it reads
RegulationFieldsFrames ==
    LET RegulationFieldsRows ==
            [ NOARR : {"A", "B"},
              DESCRIPTIF : {"Limitation Vitesse", "Stationnement interdit"},
              LIBRU : {None, Some("Rue A"), Some("Rue C")} ]
    IN  SeqsUpTo(RegulationFieldsRows, MaxRows) \cup {RegulationFieldsExample}

\* rows handed to create_save_vehicle_dto: the vehicle_ columns
VehicleRows ==
    [ vehicle_all_vehicles : {None, Some(TRUE), Some(FALSE)},
      vehicle_max_height : {None, Some(3)},
      vehicle_heavyweight_max_weight : {None, Some(19)},
      vehicle_exempted_types : {None, Some(<<>>), Some(<<"bicycle">>)},
      vehicle_restricted_types : {None, Some(<<"heavyGoodsVehicle">>)} ]

\* rows handed to create_measure: the measure_ and location_ columns, with
\* every combination of vehicle_ columns
MeasureRows ==
    { with_columns(m, v) :
        m \in [ measure_type_ : {NOENTRY, SPEEDLIMITATION, "bogus"},
                measure_max_speed : {None, Some(30)},
                location_road_type : {RAWGEOJSON, "bogus"},
                location_label : {Some("Brest - Rue A")},
                location_geometry : {"geojson"} ],
        v \in VehicleRows }

\* the measure_ and location_ columns of the rows handed to
\* create_regulations: two that build a measure, one with an unknown
\* measure type, one with an unknown road type
MeasureKinds ==
    { [measure_type_ |-> NOENTRY, measure_max_speed |-> None,
       location_road_type |-> RAWGEOJSON],
      [measure_type_ |-> SPEEDLIMITATION, measure_max_speed |-> Some(30),
       location_road_type |-> RAWGEOJSON],
      [measure_type_ |-> "bogus", measure_max_speed |-> None,
       location_road_type |-> RAWGEOJSON],
      [measure_type_ |-> NOENTRY, measure_max_speed |-> None,
       location_road_type |-> "bogus"] }

\* the columns that hold the same value in every row handed to
\* create_regulations
FixedColumns ==
    [ regulation_category |-> PERMANENTREGULATION,
      regulation_subject |-> SUBJECT_OTHER,
      regulation_other_category_text |-> "Circulation",
      location_label |-> Some("Brest - Rue A"),
      location_geometry |-> "geojson",
      vehicle_all_vehicles |-> Some(TRUE) ]

\* rows handed to create_regulations
FlatRows ==
    { with_columns(with_columns(r, k), FixedColumns) :
        r \in [ regulation_identifier : {"A", "B"},
                regulation_title : {"T1", "T2"},
                regulation_status : {PUBLISHED, "bogus"} ],
        k \in MeasureKinds }

FlatRow(id, title, status, measure_type) ==
    with_columns(
        with_columns([ regulation_identifier |-> id, regulation_title |-> title,
                       regulation_status |-> status ],
                     [ measure_type_ |-> measure_type, measure_max_speed |-> None,
                       location_road_type |-> RAWGEOJSON ]),
        FixedColumns)

\* two valid rows of regulation A and a row of regulation B whose measure
\* type is unknown
FlatExample ==
    << FlatRow("A", "T1", PUBLISHED, NOENTRY),
       FlatRow("A", "T1", PUBLISHED, NOENTRY),
       FlatRow("B", "T2", PUBLISHED, "bogus") >>

FlatFrames == SeqsUpTo(FlatRows, MaxRows) \cup {FlatExample}

\* two one-way rows, the first with SENS = 1, and a speed limitation
MeasureTypeExample ==
    << [DESCRIPTIF |-> SENS_UNIQUE, SENS |-> Some(1)],
       [DESCRIPTIF |-> SENS_UNIQUE, SENS |-> Some(2)],
       [DESCRIPTIF |-> "Limitation Vitesse", SENS |-> Some(1)] >>

\* rows handed to compute_measure_type: the columns it reads
MeasureTypeFrames ==
    LET MeasureTypeRows ==
            [ DESCRIPTIF : { "Limitation Vitesse", "Limitation Poids", SENS_UNIQUE,
                             "Invalid Description" },
              SENS : {None, Some(1), Some(2)} ]
    IN  SeqsUpTo(MeasureTypeRows, MaxRows) \cup {MeasureTypeExample}

\* cells handed to cast_boolean_column: null or a string of at most MaxLen
\* characters
BooleanCells == {None} \cup { Some(s) : s \in SeqsUpTo(Letters, MaxLen) }

\* rows handed to compute_save_location_fields of the Sarthe adapter: the
\* columns it reads
LocationFrames ==
    LET LocationRows ==
            [ geo_shape : {None, Some("{Point}")},
              loc_txt : {None, Some(""), Some("Route de Paris")},
              title : {"Inconnu", "Limitation 50"} ]
    IN  SeqsUpTo(LocationRows, MaxRows)

\* rows handed to build_id_and_drop_duplicates: infobulle and the three
\* columns that are hashed
IdFrames ==
    LET IdRows ==
            [ infobulle : {None, Some("X"), Some("Y")},
              loc_txt : {None, Some("rue")},
              VITESSE : {Some(50), Some(70)},
              longueur : {None, Some("1.5")} ]
    IN  SeqsUpTo(IdRows, MaxRows)

\* rows handed to compute_measure_max_speed: the columns it reads
MaxSpeedFrames ==
    LET MaxSpeedRows ==
            [ measure_type_ : MeasureTypeEnum,
              VITEMAX : {None, Some(-10), Some(0), Some(30)} ]
    IN  SeqsUpTo(MaxSpeedRows, MaxRows)

\* what one publish loop did: the identifiers it called publish regulation
\* for, in order, and the identifiers it logged as failed to publish
RECURSIVE publish(_, _)
publish(ids, outcomes) ==
    IF ids = <<>> THEN [attempted |-> <<>>, failed |-> {}]
    ELSE IF Head(outcomes).kind = "exception"
         THEN [attempted |-> <<Head(ids)>>, failed |-> {}]
         ELSE LET rest == publish(Tail(ids), Tail(outcomes))
              IN  [ attempted |-> <<Head(ids)>> \o rest.attempted,
                    failed |-> IF Head(outcomes).status = 200
                               THEN rest.failed
                               ELSE {Head(ids)} \cup rest.failed ]

RECURSIVE publish_regulations(_, _)
publish_regulations(ids, outcomes) ==
    IF ids = <<>> THEN [attempted |-> <<>>, failed |-> {}]
    ELSE LET rest == publish_regulations(Tail(ids), Tail(outcomes))
         IN  [ attempted |-> <<Head(ids)>> \o rest.attempted,
               failed |-> IF Head(outcomes).kind = "exception"
                          THEN {Head(ids)} \cup rest.failed
                          ELSE rest.failed ]

\* identifiers returned by fetch and the outcome of publish regulation for
\* each of them, handed to both publish implementations
PublishInputs ==
    UNION { { [identifiers |-> s, outcomes |-> o] :
                o \in [1..Len(s) -> PublishOutcomes] } :
            s \in InitialRegistries }

\* the arguments the function named f is applied to
Args(f, a) ==
    IF f = "validate_raw_data" THEN RawFrames(a)
    ELSE IF f = "compute_regulation_fields" THEN RegulationFieldsFrames
    ELSE IF f = "create_measure" THEN MeasureRows
    ELSE IF f = "create_save_vehicle_dto" THEN VehicleRows
    ELSE IF f = "compute_measure_type" THEN MeasureTypeFrames
    ELSE IF f = "cast_boolean_column" THEN BooleanCells
    ELSE IF f = "compute_save_location_fields" THEN LocationFrames
    ELSE IF f = "build_id_and_drop_duplicates" THEN IdFrames
    ELSE IF f = "compute_measure_max_speed" THEN MaxSpeedFrames
    ELSE IF f = "publish_implementations" THEN PublishInputs
    ELSE FlatFrames

InitFn ==
    /\ cmd \in Functions
    /\ adapter \in IF cmd = "validate_raw_data" THEN Adapters
                    ELSE IF cmd \in SarthesFunctions THEN {"dp_sarthes"}
                    ELSE {"co_brest"}
    /\ arg \in Args(cmd, adapter)
    /\ result = NoResult
    /\ run = 1
    /\ pc = "start"
    /\ registry = <<>>
    /\ raw_data = NoFrame
    /\ clean_data = <<>>
    /\ regulations = <<>>
    /\ identifiers = <<>>
    /\ fetched = ""
    /\ regulations_to_integrate = <<>>
    /\ index = 0
    /\ resp = Unbound
    /\ count_error = 0
    /\ has_error = FALSE
    /\ calls = <<>>
    /\ logged = <<>>
    /\ steps = {}
    /\ report = NoReport
    /\ raised = ""
    /\ exit_code = NoExit
    /\ first = NoFirst

\* the variables of the commands, which no function application touches
command_vars ==
    << cmd, adapter, run, registry, raw_data, clean_data, regulations,
       identifiers, fetched, regulations_to_integrate, index, resp,
       count_error, has_error, calls, logged, steps, report, raised,
       exit_code, first >>

apply_validate_raw_data ==
    /\ cmd = "validate_raw_data" /\ pc = "start"
    /\ result' = IF ValidateRaises(adapter, arg) THEN Raised
                 ELSE Returned(validate_raw_data(adapter, arg))
    /\ pc' = "done"
    /\ UNCHANGED << arg, command_vars >>

apply_compute_regulation_fields ==
    /\ cmd = "compute_regulation_fields" /\ pc = "start"
    /\ result' = Returned(compute_regulation_fields(arg))
    /\ pc' = "done"
    /\ UNCHANGED << arg, command_vars >>

apply_create_measure ==
    /\ cmd = "create_measure" /\ pc = "start"
    /\ result' = IF DefaultMeasureRaises(arg) THEN Raised
                 ELSE Returned(DefaultMeasure(arg))
    /\ pc' = "done"
    /\ UNCHANGED << arg, command_vars >>

apply_create_save_vehicle_dto ==
    /\ cmd = "create_save_vehicle_dto" /\ pc = "start"
    /\ result' = Returned(create_save_vehicle_dto(arg))
    /\ pc' = "done"
    /\ UNCHANGED << arg, command_vars >>

apply_create_regulations ==
    /\ cmd = "create_regulations" /\ pc = "start"
    /\ IF DefaultRegulationsRaises(arg)
       THEN result' = Raised
       ELSE \E order \in GroupOrders(arg) :
              result' = Returned(DefaultRegulations(arg, order))
    /\ pc' = "done"
    /\ UNCHANGED << arg, command_vars >>

apply_compute_measure_type ==
    /\ cmd = "compute_measure_type" /\ pc = "start"
    /\ result' = Returned(compute_measure_type(arg))
    /\ pc' = "done"
    /\ UNCHANGED << arg, command_vars >>

apply_cast_boolean_column ==
    /\ cmd = "cast_boolean_column" /\ pc = "start"
    /\ result' = Returned(cast_boolean_column(arg))
    /\ pc' = "done"
    /\ UNCHANGED << arg, command_vars >>

apply_compute_save_location_fields ==
    /\ cmd = "compute_save_location_fields" /\ pc = "start"
    /\ result' = Returned(compute_save_location_fields(arg))
    /\ pc' = "done"
    /\ UNCHANGED << arg, command_vars >>

apply_build_id_and_drop_duplicates ==
    /\ cmd = "build_id_and_drop_duplicates" /\ pc = "start"
    /\ result' = Returned(build_id_and_drop_duplicates(arg))
    /\ pc' = "done"
    /\ UNCHANGED << arg, command_vars >>

apply_compute_measure_max_speed ==
    /\ cmd = "compute_measure_max_speed" /\ pc = "start"
    /\ result' = Returned(compute_measure_max_speed(arg))
    /\ pc' = "done"
    /\ UNCHANGED << arg, command_vars >>

apply_publish_implementations ==
    /\ cmd = "publish_implementations" /\ pc = "start"
    /\ result' = Returned([ cli |-> publish(arg.identifiers, arg.outcomes),
                            integration |-> publish_regulations(
                                arg.identifiers, arg.outcomes) ])
    /\ pc' = "done"
    /\ UNCHANGED << arg, command_vars >>

NextFn ==
    \/ apply_validate_raw_data
    \/ apply_compute_regulation_fields
    \/ apply_create_measure
    \/ apply_create_save_vehicle_dto
    \/ apply_create_regulations
    \/ apply_compute_measure_type
    \/ apply_cast_boolean_column
    \/ apply_compute_save_location_fields
    \/ apply_build_id_and_drop_duplicates
    \/ apply_compute_measure_max_speed
    \/ apply_publish_implementations

SpecFn == InitFn /\ [][NextFn]_vars

\* the function named f has been applied and has returned
Applied(f) == cmd = f /\ pc = "done"
HasReturned(f) == Applied(f) /\ result.returned

(***************************************************************************)
(* Properties                                                              *)
(***************************************************************************)
\* the identifiers sent in the calls of this run, in call order
RECURSIVE CallIds(_)
CallIds(cs) ==
    IF cs = <<>> THEN <<>> ELSE <<Head(cs).identifier>> \o CallIds(Tail(cs))

\* the positions of cs whose call returned the status st
WithStatus(cs, st) == { k \in 1..Len(cs) : cs[k].status = st }

\* the integrate run has fetched the known identifiers and computed the
\* difference
Diffed == cmd = "integrate" /\ "diff" \in steps

\* the positions of the built regulations the registry does not know
Unknown == { i \in 1..Len(regulations) :
               \A k \in 1..Len(identifiers) :
                  regulations[i].identifier # identifiers[k] }

\* C1: the regulations handed to the add calls are exactly the built
\* regulations whose suffixed identifier is not among the identifiers the
\* registry returned: a known one is never in the list nor in an add call,
\* an unknown one is never left out of the list
C1_SubmitsExactlyUnknown ==
    Diffed =>
        /\ \A i \in 1..Len(regulations) :
             (i \in Unknown) <=>
                 (\E k \in 1..Len(regulations_to_integrate) :
                     regulations_to_integrate[k] = regulations[i])
        /\ Len(regulations_to_integrate) = Cardinality(Unknown)
        /\ \A k \in 1..Len(calls) :
             /\ calls[k].identifier \notin Range(identifiers)
             /\ calls[k].identifier = regulations_to_integrate[k].identifier

\* C1 witness: two regulations built, one known and one not, and the
\* unknown one sent
C1_Witness ==
    /\ Diffed
    /\ Len(regulations) = 2
    /\ Cardinality(Unknown) = 1
    /\ Len(calls) = 1

\* C2 as stated: after a first run that reached its submissions, the
\* second run on the same feed has nothing to submit
C2_SecondRunSubmitsNothing ==
    (Diffed /\ run = 2 /\ first.diffed /\ raw_data = first.raw_data) => regulations_to_integrate = <<>>

\* C2 amended: when both runs read the same feed and computed their
\* difference, the second run submits exactly the regulations the first
\* run had to submit and for which no add call returned 201; it submits
\* nothing when every regulation the first run had to submit was accepted
C2_SecondRunSubmitsUnaccepted ==
    (Diffed /\ run = 2 /\ first.diffed /\ raw_data = first.raw_data) =>
        /\ Range(Identifiers(regulations_to_integrate))
               = Range(first.to_integrate) \ first.accepted
        /\ (Range(first.to_integrate) \subseteq first.accepted
               => regulations_to_integrate = <<>>)

\* C2 witness: the first run had two regulations accepted and the second
\* run has none to submit
C2_Witness ==
    /\ Diffed /\ run = 2 /\ first.diffed /\ raw_data = first.raw_data
    /\ Cardinality(first.accepted) = 2
    /\ Len(regulations) = 2
    /\ regulations_to_integrate = <<>>

\* C3 as stated: when the loop of _integrate_regulations is over, every
\* regulation to integrate was sent in exactly one add call, whatever the
\* outcomes of the calls
C3_EveryRegulationAttemptedOnce ==
    (Diffed /\ pc = "done") =>
        CallIds(calls) = Identifiers(regulations_to_integrate)

\* C4 as stated: once the identifiers are fetched, integrate_regulations
\* returns normally and reports (submitted, total), submitted being the
\* number of calls that returned 201
C4_ReturnsWithCounts ==
    (Diffed /\ pc = "done") =>
        /\ raised = ""
        /\ report = << Cardinality(WithStatus(calls, 201)),
                       Len(regulations_to_integrate) >>

\* C5: in a run whose identifier fetch failed, the run is aborted and no
\* add call and no publish call is issued
C5_FailedFetchIsFatal ==
    (fetched \notin {"", "ok"}) =>
        /\ calls = <<>>
        /\ raised # ""
        /\ pc \in {"exit", "done"}
        /\ steps \cap {"diff", "add_regulation", "publish_regulation"} = {}

\* C5 witness: an integrate run that built a regulation and whose fetch
\* failed has ended
C5_Witness ==
    /\ cmd = "integrate" /\ pc = "done"
    /\ fetched = "no_identifiers"
    /\ regulations # <<>>

\* the positions of the calls that failed: another status than st, or an
\* exception
Failures(cs, st) == { k \in 1..Len(cs) : cs[k].status # st }

\* C6 as stated: the integrate command exits with status zero exactly when
\* the fetch succeeded and every submission succeeded
C6_IntegrateExitStatus ==
    (cmd = "integrate" /\ pc = "done" /\ fetched # "") =>
        (exit_code = 0 <=> (fetched = "ok" /\ Failures(calls, 201) = {}))

\* C7 as stated: a publish run whose fetch succeeded calls the publish
\* action exactly once for each known identifier, whatever the outcomes
C7_PublishAttemptsAll ==
    (cmd \in {"publish", "publish_regulations"} /\ pc = "done"
        /\ fetched = "ok") =>
        CallIds(calls) = identifiers

\* C8 as stated: publish_regulations reports as failed the identifiers
\* whose call returned another status than 200 or raised, as succeeded
\* those whose call returned 200
C8_PublishAccounting ==
    (cmd = "publish_regulations" /\ pc = "done" /\ fetched = "ok") =>
        report = << Cardinality(WithStatus(calls, 200)),
                    Cardinality(Failures(calls, 200)),
                    Len(identifiers) >>

\* C9 as stated: the publish command exits with a non-zero status if and
\* only if the identifier fetch failed or a publish call did not return 200
C9_PublishExitStatusAsStated ==
    (cmd = "publish" /\ pc = "done") =>
        /\ exit_code \in {0, 1}
        /\ exit_code # 0 <=> (fetched \notin {"", "ok"}
                                  \/ Failures(calls, 200) # {})

\* C9 amended: the publish command exits with a non-zero status if and only
\* if it ended before the identifier fetch (the callback, or the
\* construction of the settings and the client, raised), the identifier
\* fetch failed, or a publish call did not return 200
C9_PublishExitStatus ==
    (cmd = "publish" /\ pc = "done") =>
        /\ exit_code \in {0, 1}
        /\ exit_code # 0 <=> (\/ fetched = ""
                              \/ fetched \notin {"", "ok"}
                              \/ Failures(calls, 200) # {})

\* C9 witness: the publish command has ended with status 1 after one call
\* returned 200 and the next returned another status
C9_Witness ==
    /\ cmd = "publish" /\ pc = "done"
    /\ Len(calls) = 2
    /\ calls[1].status = 200
    /\ calls[2].kind = "response" /\ calls[2].status # 200
    /\ exit_code = 1

\* the steps of integrate_regulations that follow validate_raw_data
LaterSteps ==
    { "compute_clean_data", "create_regulations", "fetch_regulation_ids",
      "diff", "add_regulation" }

\* C10: when the raw frame lacks a declared non-nullable column,
\* validate_raw_data raises and no later step of integrate_regulations is
\* executed
C10_MissingColumnAborts ==
    (cmd = "integrate" /\ "validate_raw_data" \in steps
        /\ ~ (NonNullable(adapter) \subseteq raw_data.columns)) =>
        /\ raised # ""
        /\ pc \in {"exit", "done"}
        /\ steps \cap LaterSteps = {}
        /\ calls = <<>>
        /\ fetched = ""

\* C10 witness: a run on a frame without a non-nullable column, with rows
\* and an undeclared column, has ended
C10_Witness ==
    /\ cmd = "integrate" /\ pc = "done"
    /\ ~ (NonNullable(adapter) \subseteq raw_data.columns)
    /\ ExtraColumn \in raw_data.columns
    /\ raw_data.rows # <<>>
    /\ exit_code = 1

\* C11: whenever validate_raw_data returns, the columns of the frame it
\* returns are exactly the columns the adapter's raw_data_schema declares:
\* the undeclared columns of the raw frame are gone and none is added, for
\* both adapters and after preprocess_raw_data has run
C11_ValidatedColumnsAreDeclared ==
    HasReturned("validate_raw_data") =>
        result.value.columns = raw_data_schema(adapter)

\* C11 witness: validate_raw_data has returned for a Brest frame that came
\* with rows and an undeclared column
C11_Witness ==
    /\ HasReturned("validate_raw_data")
    /\ adapter = "co_brest"
    /\ ExtraColumn \in arg.columns
    /\ arg.rows # <<>>
    /\ ExtraColumn \notin result.value.columns

\* the first row, in frame order, of the group of the regulation dto in the
\* frame handed to create_regulations
FirstRowOf(dto) == GroupOf(arg, dto.identifier)[1]

\* C12: every regulation create_regulations returns has its identifier,
\* title, status, category, subject and other_category_text equal to the
\* regulation_ values of the first row of its group, whether or not the
\* measure of that first row was built
C12_FieldsFromFirstRow ==
    HasReturned("create_regulations") =>
        \A k \in 1..Len(result.value) :
            LET dto == result.value[k]
                head_row == FirstRowOf(dto)
            IN  /\ dto.identifier = head_row["regulation_identifier"]
                /\ dto.title = head_row["regulation_title"]
                /\ dto.status = head_row["regulation_status"]
                /\ dto.category = head_row["regulation_category"]
                /\ dto.subject = head_row["regulation_subject"]
                /\ dto.other_category_text =
                       head_row["regulation_other_category_text"]

\* C12 witness: a regulation was returned for a group whose first row built
\* no measure and whose second row, with another title, built one
C12_Witness ==
    /\ HasReturned("create_regulations")
    /\ Len(arg) = 2
    /\ arg[1]["regulation_identifier"] = arg[2]["regulation_identifier"]
    /\ DefaultMeasureRaises(arg[1]) /\ ~ DefaultMeasureRaises(arg[2])
    /\ arg[1]["regulation_title"] # arg[2]["regulation_title"]
    /\ Len(result.value) = 1
    /\ result.value[1].title = arg[1]["regulation_title"]

\* the regulation_identifier values of the frame handed to
\* create_regulations
GroupKeys == { r["regulation_identifier"] : r \in Range(arg) }

\* C13: every regulation create_regulations returns holds at least one
\* measure, and a group whose every row fails to build a measure yields no
\* regulation
C13_NoRegulationWithoutMeasure ==
    HasReturned("create_regulations") =>
        /\ \A k \in 1..Len(result.value) : Len(result.value[k].measures) >= 1
        /\ \A key \in GroupKeys :
             (\A r \in Range(GroupOf(arg, key)) : DefaultMeasureRaises(r)) =>
                 \A k \in 1..Len(result.value) :
                     result.value[k].identifier # key

\* C13 witness: of two groups, the one whose only row fails has no
\* regulation and the other has one
C13_Witness ==
    /\ HasReturned("create_regulations")
    /\ Len(arg) = 2
    /\ arg[1]["regulation_identifier"] # arg[2]["regulation_identifier"]
    /\ DefaultMeasureRaises(arg[1]) /\ ~ DefaultMeasureRaises(arg[2])
    /\ Len(result.value) = 1
    /\ result.value[1].identifier = arg[2]["regulation_identifier"]

\* the rows of the group of key whose measure can be built, in frame order
BuildableRows(key) ==
    FilterRows(GroupOf(arg, key),
               { r \in Range(arg) : ~ DefaultMeasureRaises(r) })

\* C14: the measures of a returned regulation are exactly one measure per
\* row of its group whose construction succeeds, in row order, and none for
\* a row whose construction fails; a failing row removes neither the
\* measures of the other rows nor the regulations of the other groups (two
\* valid rows of A and a row of B with an unknown measure type give exactly
\* one regulation, A, with two measures)
C14_MeasureLevelIsolation ==
    HasReturned("create_regulations") =>
        /\ \A k \in 1..Len(result.value) :
             LET built == BuildableRows(result.value[k].identifier)
             IN  /\ Len(result.value[k].measures) = Len(built)
                 /\ \A i \in 1..Len(built) :
                      result.value[k].measures[i] = DefaultMeasure(built[i])
        /\ \A key \in GroupKeys :
             BuildableRows(key) # <<>> =>
                 \E k \in 1..Len(result.value) : result.value[k].identifier = key
        /\ arg = FlatExample =>
             /\ Len(result.value) = 1
             /\ result.value[1].identifier = "A"
             /\ Len(result.value[1].measures) = 2

\* C14 witness: a group whose first row fails on its road type and whose
\* second row succeeds has a regulation with the one measure of the second
\* row
C14_Witness ==
    /\ HasReturned("create_regulations")
    /\ Len(arg) = 2
    /\ arg[1]["regulation_identifier"] = arg[2]["regulation_identifier"]
    /\ arg[1]["location_road_type"] \notin RoadTypeEnum
    /\ arg[2]["measure_type_"] = SPEEDLIMITATION
    /\ Len(result.value) = 1
    /\ result.value[1].measures = << DefaultMeasure(arg[2]) >>

\* the row handed to create_save_vehicle_dto keeps all_vehicles = true
\* after the cleaning
AllVehiclesSet ==
    "vehicle_all_vehicles" \in Cleaned(arg) /\ arg["vehicle_all_vehicles"] = Some(TRUE)

\* C15: once the null and empty-list vehicle_ fields are discarded, a row
\* left with all_vehicles = true alone gives a vehicle set that carries
\* only all_vehicles = true, and a row left with all_vehicles = true and any
\* other vehicle field gives a vehicle set that keeps all_vehicles and every
\* set field with its value
C15_VehicleSetSimplification ==
    (HasReturned("create_save_vehicle_dto") /\ AllVehiclesSet) =>
        IF Cleaned(arg) = {"vehicle_all_vehicles"}
        THEN /\ DOMAIN result.value = {"all_vehicles"}
             /\ result.value["all_vehicles"] = TRUE
        ELSE /\ DOMAIN result.value = { StripVehicle[k] : k \in Cleaned(arg) }
             /\ \A k \in Cleaned(arg) :
                  result.value[StripVehicle[k]] = arg[k][1]

\* C15 witness: all_vehicles = true with a maximum height, the exempted
\* types being an empty list: the vehicle set keeps both set fields
C15_Witness ==
    /\ HasReturned("create_save_vehicle_dto")
    /\ arg["vehicle_all_vehicles"] = Some(TRUE)
    /\ arg["vehicle_max_height"] = Some(3)
    /\ arg["vehicle_exempted_types"] = Some(<<>>)
    /\ arg["vehicle_heavyweight_max_weight"] = None
    /\ arg["vehicle_restricted_types"] = None
    /\ DOMAIN result.value = {"all_vehicles", "max_height"}
    /\ result.value["max_height"] = 3

\* C16: a measure built by the default create_measure carries max_speed if
\* and only if its type is the speed limitation, in which case it is the
\* row's measure_max_speed; a speed limitation row whose measure_max_speed
\* is null builds no measure; a measure of another type carries no
\* max_speed even when the row's measure_max_speed is not null
C16_MaxSpeedOnlyForSpeedLimitation ==
    Applied("create_measure") =>
        /\ result.returned =>
             /\ (result.value.max_speed # None) <=>
                    (arg["measure_type_"] = SPEEDLIMITATION)
             /\ arg["measure_type_"] = SPEEDLIMITATION =>
                    result.value.max_speed = arg["measure_max_speed"]
        /\ (arg["measure_type_"] = SPEEDLIMITATION
                /\ arg["measure_max_speed"] = None) => ~ result.returned

\* C16 witness: a measure of another type was built from a row that holds a
\* measure_max_speed, and carries none
C16_Witness ==
    /\ HasReturned("create_measure")
    /\ arg["measure_type_"] = NOENTRY
    /\ arg["measure_max_speed"] = Some(30)
    /\ result.value.max_speed = None

\* every row of the group of key has a measure that can be built and
\* regulation_ values inside their enumerations
ValidGroup(key) ==
    \A r \in Range(GroupOf(arg, key)) :
        ~ DefaultMeasureRaises(r) /\ ~ RegulationRaises(r)

\* C17: a row that lacks or carries an invalid value for a required field,
\* regulation_status, regulation_category, regulation_subject and
\* regulation_title included, is rejected by create_regulations, which
\* still returns normally with the regulations of every other valid group:
\* create_regulations never raises because of the content of a row
C17_RowContentNeverRaises ==
    Applied("create_regulations") =>
        /\ result.returned
        /\ \A key \in GroupKeys :
             ValidGroup(key) =>
                 \E k \in 1..Len(result.value) : result.value[k].identifier = key

\* the identifiers create_regulations builds from the clean frame of the
\* run, before integrate_regulations rewrites them
BaseIdentifiers ==
    UNION { Range(Identifiers(create_regulations(adapter, clean_data, o))) :
              o \in GroupOrders(clean_data) }

\* C18: every identifier compared with the known identifiers or sent in an
\* add call is a built identifier with "-0" appended exactly once; a
\* registry that knows only the unsuffixed identifier does not keep the
\* regulation from being submitted, one that knows "<base>-0" does
C18_RunSuffix ==
    (cmd = "integrate" /\ "create_regulations" \in steps /\ raised = "") =>
        /\ Range(Identifiers(regulations)) =
               { b \o "-0" : b \in BaseIdentifiers }
        /\ \A k \in 1..Len(calls) :
               \E b \in BaseIdentifiers : calls[k].identifier = b \o "-0"
        /\ "diff" \in steps =>
               \A b \in BaseIdentifiers :
                   (b \o "-0" \in Range(identifiers)) <=>
                       (b \o "-0" \notin
                            Range(Identifiers(regulations_to_integrate)))

\* C18 witness: the registry knows "A" and not "A-0"; the regulation built
\* as "A" is sent as "A-0"
C18_Witness ==
    /\ Diffed
    /\ "A" \in BaseIdentifiers
    /\ "A" \in Range(identifiers)
    /\ "A-0" \notin Range(identifiers)
    /\ \E k \in 1..Len(calls) : calls[k].identifier = "A-0"

\* the positions of the returned regulations that carry the identifier key
Returned_for(key) ==
    { k \in 1..Len(result.value) : result.value[k].identifier = key }

\* C19: create_regulations returns at most one regulation per distinct
\* regulation_identifier and exactly one for every distinct value that has
\* at least one row whose measure builds; the regulations returned do not
\* depend on the order in which the groups are iterated
C19_OneRegulationPerIdentifier ==
    Applied("create_regulations") =>
        /\ \A key \in GroupKeys :
             Cardinality(Returned_for(key)) =
                 IF BuildableRows(key) # <<>> THEN 1 ELSE 0
        /\ \A o \in GroupOrders(arg) :
             Range(DefaultRegulations(arg, o)) = Range(result.value)

\* the regulation_ columns compute_regulation_fields adds
AddedRegulationFields ==
    { "regulation_identifier", "regulation_status", "regulation_category",
      "regulation_subject", "regulation_other_category_text",
      "regulation_title" }

\* the first row of the frame handed to compute_regulation_fields that
\* carries the NOARR noarr
FirstInputRow(noarr) ==
    arg[CHOOSE i \in 1..Len(arg) :
            /\ arg[i].NOARR = noarr
            /\ \A j \in 1..(i - 1) : arg[j].NOARR # noarr]

\* C20: the rows compute_regulation_fields returns for one NOARR carry the
\* same regulation_identifier, regulation_status, regulation_category,
\* regulation_subject, regulation_other_category_text and regulation_title,
\* and that title is the DESCRIPTIF, the separator and the LIBRU of the
\* first input row with that NOARR
C20_RegulationFieldsPerArrete ==
    HasReturned("compute_regulation_fields") =>
        /\ \A i, j \in 1..Len(result.value) :
             result.value[i].NOARR = result.value[j].NOARR =>
                 \A f \in AddedRegulationFields :
                     result.value[i][f] = result.value[j][f]
        /\ \A i \in 1..Len(result.value) :
             LET head_row == FirstInputRow(result.value[i].NOARR)
             IN  /\ head_row.LIBRU # None
                 /\ result.value[i]["regulation_title"] =
                        Some(head_row.DESCRIPTIF \o TitleSeparator
                                 \o head_row.LIBRU[1])

\* C20 witness: of two rows of arrete A and one of arrete B, the second row
\* of A carries the title of the first although its own DESCRIPTIF and
\* LIBRU differ
C20_Witness ==
    /\ HasReturned("compute_regulation_fields")
    /\ arg = RegulationFieldsExample
    /\ Len(result.value) = 3
    /\ result.value[2]["regulation_title"] = Some("Limitation Vitesse - Rue A")
    /\ result.value[3]["regulation_title"] = Some("Stationnement interdit - Rue C")
    /\ result.value[2]["regulation_other_category_text"] = "Circulation"

\* the rows of the frame handed to compute_measure_type that C21 says are
\* kept: a configured DESCRIPTIF, and not a one-way row with SENS = 1
C21_Kept ==
    FilterRows(arg, { r \in Range(arg) :
                        /\ r.DESCRIPTIF \in DOMAIN DESCRIPTION_CONFIG
                        /\ ~ (r.DESCRIPTIF = SENS_UNIQUE /\ r.SENS = Some(1)) })

\* C21: compute_measure_type keeps, in input order, exactly the rows whose
\* DESCRIPTIF is a key of DESCRIPTION_CONFIG, except the rows "Sens interdit
\* / Sens unique" with SENS = 1 (such a row with any other SENS, a missing
\* one included, is kept), and sets measure_type_ of each kept row to the
\* type configured for its DESCRIPTIF
C21_MeasureTypeKeepsConfigured ==
    HasReturned("compute_measure_type") =>
        /\ Len(result.value) = Len(C21_Kept)
        /\ \A i \in 1..Len(C21_Kept) :
             /\ result.value[i].DESCRIPTIF = C21_Kept[i].DESCRIPTIF
             /\ result.value[i].SENS = C21_Kept[i].SENS
             /\ result.value[i]["measure_type_"] =
                    DESCRIPTION_CONFIG[C21_Kept[i].DESCRIPTIF]

\* the cell handed to cast_boolean_column spells "oui" in some letter case
SpellsOui ==
    /\ arg # None
    /\ Len(arg[1]) = 3
    /\ arg[1][1] \in {"o", "O"}
    /\ arg[1][2] \in {"u", "U"}
    /\ arg[1][3] \in {"i", "I"}

\* C22: cast_boolean_column is total and two-valued: for every value, a
\* string in any letter case or null, the result is a non-null boolean that
\* is true if and only if the upper-cased value is "OUI"; "NON" in any
\* case, null and every other string give false
C22_CastBooleanTwoValued ==
    HasReturned("cast_boolean_column") =>
        /\ result.value \in {Some(TRUE), Some(FALSE)}
        /\ (result.value = Some(TRUE)) <=> SpellsOui

\* C22 witness: "Oui" was cast to true
C22_Witness ==
    /\ HasReturned("cast_boolean_column")
    /\ arg = Some(<<"O", "u", "i">>)
    /\ result.value = Some(TRUE)

\* the rows of the frame handed to compute_save_location_fields whose
\* geo_shape is not null, in input order
C23_Kept == FilterRows(arg, { r \in Range(arg) : r.geo_shape # None })

\* C23: the Sarthe compute_save_location_fields drops exactly the rows whose
\* geo_shape is null and keeps the others in order; each kept row gets the
\* raw-GeoJSON road type, its geo_shape as location_geometry, and as
\* location_label its loc_txt when that is neither null nor empty and its
\* title otherwise
C23_SarthesLocationFields ==
    HasReturned("compute_save_location_fields") =>
        /\ Len(result.value) = Len(C23_Kept)
        /\ \A i \in 1..Len(C23_Kept) :
             /\ \A f \in DOMAIN C23_Kept[i] : result.value[i][f] = C23_Kept[i][f]
             /\ result.value[i]["location_road_type"] = RAWGEOJSON
             /\ result.value[i]["location_geometry"] = C23_Kept[i].geo_shape
             /\ result.value[i]["location_label"] =
                    IF C23_Kept[i].loc_txt \in {None, Some("")}
                    THEN C23_Kept[i].title
                    ELSE C23_Kept[i].loc_txt[1]

\* C23 witness: of a row without geo_shape and a row with an empty loc_txt,
\* the second alone is returned, labelled with its title
C23_Witness ==
    /\ HasReturned("compute_save_location_fields")
    /\ Len(arg) = 2
    /\ arg[1].geo_shape = None
    /\ arg[2].geo_shape # None /\ arg[2].loc_txt = Some("")
    /\ Len(result.value) = 1
    /\ result.value[1]["location_label"] = arg[2].title

\* C24: build_id_and_drop_duplicates gives each row the id equal to its
\* infobulle when infobulle is present, and the hash of (loc_txt, VITESSE,
\* longueur) only to the rows without infobulle, so that two rows with
\* different present infobulle values never get the same id
C24_InfobulleIsId ==
    HasReturned("build_id_and_drop_duplicates") =>
        /\ \A i \in 1..Len(result.value) :
             result.value[i].id =
                 IF result.value[i].infobulle # None
                 THEN result.value[i].infobulle
                 ELSE SarthesId(result.value[i])
        /\ \A i, j \in 1..Len(arg) :
             (arg[i].infobulle # None /\ arg[j].infobulle # None
                  /\ arg[i].infobulle # arg[j].infobulle) =>
                 \E k \in 1..Len(result.value) :
                     result.value[k].infobulle = arg[i].infobulle

\* the positions of the frame handed to build_id_and_drop_duplicates whose
\* id is the id of another position
DuplicatedInput ==
    { i \in 1..Len(arg) :
        \E j \in 1..Len(arg) : j # i /\ SarthesId(arg[j]) = SarthesId(arg[i]) }

\* C25: after build_id_and_drop_duplicates, for every input frame, rows
\* with a null loc_txt or longueur included, no two remaining rows share an
\* id, and every row whose id occurred on more than one input row is gone
C25_NoSharedIdRemains ==
    HasReturned("build_id_and_drop_duplicates") =>
        /\ \A i, j \in 1..Len(result.value) :
             i # j => result.value[i].id # result.value[j].id
        /\ \A i \in DuplicatedInput :
             \A k \in 1..Len(result.value) :
                 \E f \in DOMAIN arg[i] : result.value[k][f] # arg[i][f]

\* the rows of the frame handed to compute_measure_max_speed that C26 says
\* are kept: all but the speed limitations whose VITEMAX is null or <= 0
C26_Kept ==
    FilterRows(arg, { r \in Range(arg) :
                        \/ r.measure_type_ # SPEEDLIMITATION
                        \/ (r.VITEMAX # None /\ r.VITEMAX[1] > 0) })

\* C26: compute_measure_max_speed drops exactly the speed limitation rows
\* whose VITEMAX is null or <= 0 and keeps every other row, the other types
\* with a null VITEMAX included; in its output a speed limitation row has
\* measure_max_speed = VITEMAX > 0 and any other row a null
\* measure_max_speed, so no speed limitation row that reaches create_measure
\* lacks its max speed
C26_MaxSpeedFilter ==
    HasReturned("compute_measure_max_speed") =>
        /\ Len(result.value) = Len(C26_Kept)
        /\ \A i \in 1..Len(C26_Kept) :
             /\ result.value[i].measure_type_ = C26_Kept[i].measure_type_
             /\ result.value[i].VITEMAX = C26_Kept[i].VITEMAX
             /\ IF C26_Kept[i].measure_type_ = SPEEDLIMITATION
                THEN /\ result.value[i]["measure_max_speed"] = C26_Kept[i].VITEMAX
                     /\ result.value[i]["measure_max_speed"] # None
                     /\ result.value[i]["measure_max_speed"][1] > 0
                ELSE result.value[i]["measure_max_speed"] = None

\* C26 witness: of a speed limitation without VITEMAX and another measure
\* without VITEMAX, the second alone is returned
C26_Witness ==
    /\ HasReturned("compute_measure_max_speed")
    /\ Len(arg) = 2
    /\ arg[1].measure_type_ = SPEEDLIMITATION /\ arg[1].VITEMAX = None
    /\ arg[2].measure_type_ = NOENTRY /\ arg[2].VITEMAX = None
    /\ Len(result.value) = 1
    /\ result.value[1].measure_type_ = NOENTRY

\* the clean frame of the run as compute_clean_data returned it, before the
\* selection of the RegulationMeasure columns
CleanBeforeSelection ==
    compute_clean_data(adapter, validate_raw_data(adapter, raw_data).rows)

\* C27: in a run of integrate_regulations with the Sarthe adapter, the
\* selection applied between compute_clean_data and create_regulations
\* keeps the columns id, title and max_speed, so every clean row yields
\* exactly one regulation, identified by the row's id and holding one speed
\* limitation measure; a non-empty clean frame never gives an empty list of
\* regulations
C27_SarthesSelectionKeepsColumns ==
    (cmd = "integrate" /\ adapter = "dp_sarthes"
        /\ "create_regulations" \in steps) =>
        /\ \A i \in 1..Len(clean_data) :
             {"id", "title", "max_speed"} \subseteq DOMAIN clean_data[i]
        /\ Len(regulations) = Len(CleanBeforeSelection)
        /\ \A i \in 1..Len(regulations) :
             /\ regulations[i].identifier =
                    Str(CleanBeforeSelection[i].id) \o RunSuffix
             /\ Len(regulations[i].measures) = 1
             /\ regulations[i].measures[1].type_ = SPEEDLIMITATION

\* C28: on the same fetched identifiers and the same outcome of publish
\* regulation for each identifier, the publish command of the command-line
\* tool and DialogIntegration.publish_regulations call publish regulation
\* for the same identifiers in the same order and take the same identifiers
\* as failed
C28_PublishImplementationsAgree ==
    HasReturned("publish_implementations") =>
        /\ result.value.cli.attempted = result.value.integration.attempted
        /\ result.value.cli.failed = result.value.integration.failed

\* C29: whenever the failure handler of _integrate_regulations runs for a
\* regulation, the response it reads is the one returned by the add call of
\* that same regulation: resp is never unassigned and never the response of
\* an earlier regulation
C29_HandlerReadsOwnResponse ==
    cmd = "integrate" =>
        /\ raised # "UnboundLocalError"
        /\ raised = "JSONDecodeError" =>
               resp.of = calls[Len(calls)].identifier
        /\ \A k \in 1..Len(logged) : logged[k].detail_of = logged[k].failed

\* C30: within one integrate run, for either adapter and every feed, the
\* identifiers sent in the add calls are pairwise distinct
C30_AddIdentifiersDistinct ==
    cmd = "integrate" =>
        \A i, j \in 1..Len(calls) :
            i # j => calls[i].identifier # calls[j].identifier

\* a Brest run that has sent two add calls
C30_Witness ==
    /\ cmd = "integrate" /\ adapter = "co_brest"
    /\ Len(calls) = 2
    /\ Len(regulations_to_integrate) = 2

====
